---- MODULE Spec2Model ----
(***************************************************************************)
(* Model of the Render keep-alive monitor: the prober (keep_alive.py), the *)
(* Log Store (monitoring.py), the notifier (reporting.py) and the          *)
(* scheduler (main.py), with the HTTP entry points of api/index.py.        *)
(*                                                                         *)
(* Specifications:                                                         *)
(*   Spec        the scheduler's probe loop (run_keep_alive / ping_service)*)
(*   SpecReport  the scheduler's report loop against a wall clock,         *)
(*               FairSpecDaily with fairness and any phase of the tick     *)
(*   SpecLoops   both loops of the scheduler, FairSpecLoops with fairness  *)
(*   SpecCron    the HTTP-triggered entry points of api/index.py           *)
(*   SpecSend    one send_report / send_alert call, step by step           *)
(*   SpecStore   one ServiceMonitor used by one caller, with I/O errors,   *)
(*               crash and restart                                         *)
(*   SpecThreads the probe thread's log_ping against the report thread's   *)
(*               clear_logs, statement by statement                        *)
(*   SpecCadence the probe loop with intervals longer and shorter than a   *)
(*               cycle                                                     *)
(*   SpecProbe   calls of ping_all_endpoints and is_service_healthy        *)
(*   SpecQuery   calls of get_logs and generate_report on a loaded store   *)
(*   SpecLoad    the construction of a ServiceMonitor on any file, and the *)
(*               appends that follow                                       *)
(*   SpecRun     run() with and without a base URL, then both loops        *)
(*   SpecRetry   both loops, with the report cycle split where send_report *)
(*               waits between its attempts                                *)
(*   SpecRestart the probe loop of a scheduler process that is stopped and *)
(*               started again                                             *)
(*   SpecAlert   the probe loop with alerts that are delivered, fail or    *)
(*               raise                                                     *)
(*   SpecEntry   the entry points that probe and log on a fresh            *)
(*               ServiceMonitor: GET /ping, GET /cron/keep-alive and the   *)
(*               scheduled task run_monitoring_check                       *)
(***************************************************************************)
EXTENDS Integers, Sequences, FiniteSets, TLC

(***************************************************************************)
(* Bounds of the model                                                     *)
(***************************************************************************)
\* probe cycles run by the probe loop
MaxCycles == 5

\* midnights the report loop runs through
MaxDays == 2

\* entries the Log Store holds at most
MaxStoreLen == 2

\* calls of the HTTP entry points
MaxCronCalls == 4

\* log_ping and clear_logs calls made on one ServiceMonitor
MaxAppends == 2
MaxClears == 2

\* entries of a Log Store that is queried
MaxQueryLen == 3

\* restarts of the scheduler process
MaxRestarts == 1

\* runs of the entry points that probe and log
MaxEntryCalls == 3

(***************************************************************************)
(* Values                                                                  *)
(***************************************************************************)
\* Python's None where a number is expected (times, latencies and status
\* codes are never negative)
None == -1

\* Python's None where an object is expected (a report, an error message)
NoneObj == [none |-> TRUE]

\* timeout_seconds default of RenderServiceManager
TimeoutSeconds == 10

\* what the HTTP client does for one request
Response(code, elapsed_ms) == [kind |-> "response", code |-> code, elapsed_ms |-> elapsed_ms]
Timeout == [kind |-> "timeout"]
ConnectionError == [kind |-> "connection"]
RequestError == [kind |-> "request"]
OtherError == [kind |-> "other"]

(***************************************************************************)
(* Prober (keep_alive.py)                                                  *)
(***************************************************************************)
\* the status-code test of ping_endpoint
IsUpCode_Inclusive(code) == code <= 400

IsUpCode(code) == code < 400

ping_endpoint_NoTimeoutLatency(endpoint, method, outcome, t) ==
    LET result == [endpoint |-> endpoint, method |-> method, status |-> "DOWN",
                   response_time_ms |-> None, status_code |-> None,
                   error |-> NoneObj, timestamp |-> t]
    IN CASE outcome.kind = "response" ->
              IF IsUpCode(outcome.code)
              THEN [result EXCEPT !.response_time_ms = outcome.elapsed_ms,
                                  !.status_code = outcome.code,
                                  !.status = "UP"]
              ELSE [result EXCEPT !.response_time_ms = outcome.elapsed_ms,
                                  !.status_code = outcome.code,
                                  !.error = [msg |-> "HTTP", arg |-> outcome.code]]
         [] outcome.kind = "timeout" ->
              [result EXCEPT !.error = [msg |-> "Request timeout after", arg |-> TimeoutSeconds]]
         [] outcome.kind = "connection" ->
              [result EXCEPT !.error = [msg |-> "Connection error"]]
         [] outcome.kind = "request" ->
              [result EXCEPT !.error = [msg |-> "Request error"]]
         [] OTHER ->
              [result EXCEPT !.error = [msg |-> "Unexpected error"]]

\* ping_endpoint: the result of one probe started at time t
ping_endpoint(endpoint, method, outcome, t) ==
    LET result == [endpoint |-> endpoint, method |-> method, status |-> "DOWN",
                   response_time_ms |-> None, status_code |-> None,
                   error |-> NoneObj, timestamp |-> t]
    IN CASE outcome.kind = "response" ->
              IF IsUpCode(outcome.code)
              THEN [result EXCEPT !.response_time_ms = outcome.elapsed_ms,
                                  !.status_code = outcome.code,
                                  !.status = "UP"]
              ELSE [result EXCEPT !.response_time_ms = outcome.elapsed_ms,
                                  !.status_code = outcome.code,
                                  !.error = [msg |-> "HTTP", arg |-> outcome.code]]
         [] outcome.kind = "timeout" ->
              [result EXCEPT !.error = [msg |-> "Request timeout after", arg |-> TimeoutSeconds],
                             !.response_time_ms = TimeoutSeconds * 1000]
         [] outcome.kind = "connection" ->
              [result EXCEPT !.error = [msg |-> "Connection error"]]
         [] outcome.kind = "request" ->
              [result EXCEPT !.error = [msg |-> "Request error"]]
         [] OTHER ->
              [result EXCEPT !.error = [msg |-> "Unexpected error"]]

ping_all_endpoints_MethodMajor(eps, mths, outs, t) ==
    [i \in 1..(Len(eps) * Len(mths)) |->
        ping_endpoint(eps[((i - 1) % Len(eps)) + 1],
                      mths[((i - 1) \div Len(eps)) + 1],
                      outs[i], t + i - 1)]

\* ping_all_endpoints: for endpoint in endpoints: for method in methods.
\* outs[i] is what the HTTP client does for the i-th request, probe i starts
\* at time t + i - 1.
ping_all_endpoints(eps, mths, outs, t) ==
    [i \in 1..(Len(eps) * Len(mths)) |->
        ping_endpoint(eps[((i - 1) \div Len(mths)) + 1],
                      mths[((i - 1) % Len(mths)) + 1],
                      outs[i], t + i - 1)]

is_service_healthy_All(results) == \A i \in 1..Len(results) : results[i].status = "UP"

\* is_service_healthy, and the inline any(...) of ping_service
is_service_healthy(results) == \E i \in 1..Len(results) : results[i].status = "UP"

(***************************************************************************)
(* Log Store (monitoring.py), in memory                                    *)
(***************************************************************************)
\* the entry log_ping builds: its own timestamp, taken when it is called
log_entry(endpoint, method, status, response_time_ms, error, status_code, t) ==
    [timestamp |-> t, endpoint |-> endpoint, method |-> method, status |-> status,
     response_time_ms |-> response_time_ms, status_code |-> status_code,
     error |-> error]

\* the entries the loop "for result in results: monitor.log_ping(...)" of
\* ping_service appends, the i-th one logged at time t + i - 1
logged_results(results, t) ==
    [i \in 1..Len(results) |->
        log_entry(results[i].endpoint, results[i].method, results[i].status,
                  results[i].response_time_ms, results[i].error,
                  results[i].status_code, t + i - 1)]

\* self.logs is a list unless json.load returned some other value at startup
\* (the file held valid JSON such as null).  log_ping raises on such a store
\* at self.logs.append, and get_logs raises when it has to iterate it.
log_ping_raises_Always(is_list) == TRUE

log_ping_raises(is_list) == ~is_list

get_logs_raises(is_list, start_time, end_time) ==
    ~is_list /\ ~(start_time = None /\ end_time = None)

get_logs_HalfOpen(store, start_time, end_time) ==
    IF start_time = None /\ end_time = None
    THEN store
    ELSE LET keep(log) == /\ ~(start_time # None /\ log.timestamp < start_time)
                          /\ ~(end_time # None /\ log.timestamp >= end_time)
         IN SelectSeq(store, keep)

\* get_logs: both bounds absent returns the store itself; otherwise the
\* entries not before start_time and not after end_time, in order
get_logs(store, start_time, end_time) ==
    IF start_time = None /\ end_time = None
    THEN store
    ELSE LET keep(log) == /\ ~(start_time # None /\ log.timestamp < start_time)
                          /\ ~(end_time # None /\ log.timestamp > end_time)
         IN SelectSeq(store, keep)

\* Python truthiness of a response_time_ms value: None and 0 are false
Truthy(v) == v # None /\ v # 0

RECURSIVE SumResponseTime(_)
SumResponseTime(s) ==
    IF s = <<>> THEN 0 ELSE Head(s).response_time_ms + SumResponseTime(Tail(s))

\* round(x, 2) of the quotient sum / n, in hundredths (n < 8 here, so the
\* quotient never lies exactly between two hundredths)
Round2(sum, n) == (sum * 200 + n) \div (2 * n)

\* the body of generate_report after get_logs returned; None when it
\* returned no entry
build_report(selected, start_time, end_time) ==
    IF selected = <<>>
    THEN NoneObj
    ELSE LET total_checks == Len(selected)
             IsUp(log) == log.status = "UP"
             IsDown(log) == log.status = "DOWN"
             uptime_count == Len(SelectSeq(selected, IsUp))
             downtime_count == total_checks - uptime_count
             down_logs == SelectSeq(selected, IsDown)
             downtime_incidents ==
                 [i \in 1..Len(down_logs) |->
                     [timestamp |-> down_logs[i].timestamp,
                      endpoint |-> down_logs[i].endpoint,
                      method |-> down_logs[i].method,
                      error |-> down_logs[i].error]]
             Successful(log) == log.status = "UP" /\ Truthy(log.response_time_ms)
             successful_pings == SelectSeq(selected, Successful)
             sum_ms == SumResponseTime(successful_pings)
             \* "if successful_pings" and then "if avg_response_time"
             avg_x100 == IF successful_pings # <<>> /\ sum_ms # 0
                         THEN Round2(sum_ms, Len(successful_pings))
                         ELSE None
         IN [start_time |-> start_time, end_time |-> end_time,
             total_checks |-> total_checks,
             uptime_count |-> uptime_count,
             downtime_count |-> downtime_count,
             \* (uptime_count / total_checks) * 100, kept as an exact fraction
             uptime_percentage |-> [num |-> uptime_count * 100, den |-> total_checks],
             average_response_time_x100 |-> avg_x100,
             downtime_incidents |-> downtime_incidents]

generate_report_Unfiltered(store, start_time, end_time) ==
    build_report(store, start_time, end_time)

\* generate_report(start_time, end_time) of a store that get_logs can read
generate_report(store, start_time, end_time) ==
    build_report(get_logs(store, start_time, end_time), start_time, end_time)

(***************************************************************************)
(* Notifier (reporting.py)                                                 *)
(***************************************************************************)
\* retry_count and retry_delay defaults of send_report
DefaultRetryCount == 3
RetryDelay == 300

\* format_report_email raises when the report carries a start_time or an
\* end_time that is None: datetime.fromisoformat(None)
format_report_email_raises(report) ==
    report.start_time = None \/ report.end_time = None

\* format_alert_email raises for an alert type it has no branch for:
\* email_body is unbound at the final "email_body +="
format_alert_email_raises(alert) ==
    alert.alert_type \notin {"DOWNTIME", "RECOVERY"}

\* the files a backup leaves: the JSON file and the HTML file.  disk is what
\* the file system does: "ok", "json_fails" (makedirs or the first open
\* raises) or "html_fails" (the second open raises).  The HTML file is opened
\* before the body is rendered, so a rendering error leaves it empty.
save_backup(kind, payload, render_raises, disk) ==
    CASE disk = "json_fails" -> <<>>
      [] disk = "html_fails" ->
            << [ev |-> "backup", kind |-> kind, payload |-> payload,
                json |-> TRUE, html |-> "absent"] >>
      [] OTHER ->
            << [ev |-> "backup", kind |-> kind, payload |-> payload,
                json |-> TRUE,
                html |-> IF render_raises THEN "empty" ELSE "rendered"] >>

\* _save_report_backup and _save_alert_backup: every exception is caught
save_report_backup(report, disk) ==
    save_backup("report", report, format_report_email_raises(report), disk)

save_alert_backup(alert, disk) ==
    save_backup("alert", alert, format_alert_email_raises(alert), disk)

\* send_report_email: False without a connection when the configuration is
\* incomplete, False on any exception (rendering included), else what the
\* SMTP transport does for this attempt
send_report_email(report, config_ok, smtp_ok) ==
    IF ~config_ok THEN FALSE
    ELSE IF format_report_email_raises(report) THEN FALSE
    ELSE smtp_ok

\* send_alert_email, likewise
send_alert_email(alert, config_ok, smtp_ok) ==
    IF ~config_ok THEN FALSE
    ELSE IF format_alert_email_raises(alert) THEN FALSE
    ELSE smtp_ok

\* WaitsAfter without the test for the last attempt
WaitsAfter_EveryAttempt(attempt, retry_count) == TRUE

\* whether attempt number attempt (from 0) of send_report waits afterwards
WaitsAfter(attempt, retry_count) == attempt < retry_count - 1

\* a loop that makes every attempt, whatever the attempts before it gave
send_report_loop_AllAttempts(report, attempt, retry_count, config_ok, smtp) ==
    [i \in 1..retry_count |->
        [ev |-> "attempt", ok |-> send_report_email(report, config_ok, smtp[i])]]

\* the loop "for attempt in range(retry_count)" of send_report from attempt
\* on: the events it performs.  smtp[attempt + 1] is what the transport does
\* for that attempt.
RECURSIVE send_report_loop(_, _, _, _, _)
send_report_loop(report, attempt, retry_count, config_ok, smtp) ==
    IF attempt >= retry_count
    THEN <<>>
    ELSE IF send_report_email(report, config_ok, smtp[attempt + 1])
         THEN << [ev |-> "attempt", ok |-> TRUE] >>
         ELSE << [ev |-> "attempt", ok |-> FALSE] >>
              \o (IF WaitsAfter(attempt, retry_count)
                  THEN << [ev |-> "delay", seconds |-> RetryDelay] >>
                  ELSE <<>>)
              \o send_report_loop(report, attempt + 1, retry_count, config_ok, smtp)

\* send_report that saves the backup only once the attempts are over
send_report_events_BackupLast(report, retry_count, env) ==
    send_report_loop(report, 0, retry_count, env.config_ok, env.smtp)
    \o (IF save_report_backup(report, env.disk) = <<>>
        THEN << [ev |-> "backup_failed"] >>
        ELSE save_report_backup(report, env.disk))

\* send_report(report, retry_count): the events in order, backup first
send_report_events(report, retry_count, env) ==
    (IF save_report_backup(report, env.disk) = <<>>
     THEN << [ev |-> "backup_failed"] >>
     ELSE save_report_backup(report, env.disk))
    \o send_report_loop(report, 0, retry_count, env.config_ok, env.smtp)

\* the value a send returns: True iff its last event is a successful attempt
send_result(events) ==
    /\ events # <<>>
    /\ events[Len(events)].ev = "attempt"
    /\ events[Len(events)].ok

\* send_alert that tries a second time after a failed attempt
send_alert_events_Retrying(alert, env) ==
    (IF save_alert_backup(alert, env.disk) = <<>>
     THEN << [ev |-> "backup_failed"] >>
     ELSE save_alert_backup(alert, env.disk))
    \o << [ev |-> "attempt",
           ok |-> send_alert_email(alert, env.config_ok, env.smtp[1])] >>
    \o (IF send_alert_email(alert, env.config_ok, env.smtp[1])
        THEN <<>>
        ELSE << [ev |-> "delay", seconds |-> RetryDelay],
                [ev |-> "attempt",
                 ok |-> send_alert_email(alert, env.config_ok, env.smtp[2])] >>)

\* send_alert(alert_report): backup, then one send_alert_email
send_alert_events(alert, env) ==
    (IF save_alert_backup(alert, env.disk) = <<>>
     THEN << [ev |-> "backup_failed"] >>
     ELSE save_alert_backup(alert, env.disk))
    \o << [ev |-> "attempt",
           ok |-> send_alert_email(alert, env.config_ok, env.smtp[1])] >>

\* the backup files a call leaves on disk
backups_of(events) == SelectSeq(events, LAMBDA e : e.ev = "backup")

\* the seconds a call spent in time.sleep
RECURSIVE delay_of(_)
delay_of(events) ==
    IF events = <<>> THEN 0
    ELSE (IF Head(events).ev = "delay" THEN Head(events).seconds ELSE 0)
         + delay_of(Tail(events))

(***************************************************************************)
(* Log Store (monitoring.py), on disk                                      *)
(***************************************************************************)
\* the content of logs/uptime_logs.json
FileList(items) == [state |-> "list", items |-> items]
FileMissing == [state |-> "missing"]
FileCorrupt == [state |-> "corrupt"]
FileNotAList == [state |-> "notalist"]
\* a file just truncated by open(log_file, "w")
FileEmpty == [state |-> "empty"]
\* a text that is not JSON and is as long as the JSON of len entries
FileGarbled(len) == [state |-> "garbled", len |-> len]

\* a file whose bytes are not text in the encoding open(log_file, "r") uses
FileUndecodable == [state |-> "undecodable"]

\* _load_logs catches FileNotFoundError and json.JSONDecodeError only: the
\* UnicodeDecodeError of f.read() leaves _load_logs and __init__
load_logs_raises(file) == file.state = "undecodable"

\* _load_logs: the file's list; an empty list when the file is missing or
\* is not JSON; whatever other JSON value the file holds
load_logs(file) == IF file.state = "list" THEN file.items ELSE <<>>

load_is_list(file) == file.state # "notalist"

\* _save_logs: open(log_file, "w") truncates, json.dump writes the whole
\* collection; every exception is caught.  disk is what the file system does:
\* "ok", "open_fails" (nothing is touched) or "write_fails" (the file stays
\* truncated or partly written).
save_logs(store, file, disk) ==
    CASE disk = "ok" -> FileList(store)
      [] disk = "open_fails" -> file
      [] OTHER -> FileCorrupt

\* the length of the file's text, counted in entries
FileSize(file) ==
    CASE file.state = "list" -> Len(file.items)
      [] file.state = "garbled" -> file.len
      [] OTHER -> 0

\* what closing a handle opened with "w" does: the buffered text of
\* json.dump is written from offset 0 over what the file holds by then
write_at_start(buf, file) ==
    IF FileSize(file) > Len(buf) THEN FileGarbled(FileSize(file))
    ELSE FileList(buf)

(***************************************************************************)
(* State                                                                   *)
(***************************************************************************)
VARIABLES
    endpoints,              \* RenderKeepAlive.endpoints
    methods,                \* RenderKeepAlive.methods
    now,                    \* the clock
    logs,                   \* ServiceMonitor.logs
    logs_is_list,           \* whether self.logs is a list
    log_file,               \* the content of ServiceMonitor.log_file
    service_down_notified,  \* hasattr(self, '_service_down_notified')
    alerts,                 \* the send_alert calls made, in order
    backups,                \* the backup files written, in order
    observations,           \* the health observed by each probe cycle
    last_results,           \* what the last ping_service call probed
    last_outcomes,          \* what the HTTP client did for those probes
    ka_pc,                  \* where run_keep_alive is
    ka_raised,              \* probe cycles that ended in the except branch
    cycles,                 \* probe cycles started
    ka_wake,                \* when the time.sleep of run_keep_alive ends
    ka_starts,              \* cycle_start and cycle_duration of each probe cycle
    send_call,              \* the last send_report / send_alert call
    send_events,            \* what that call did, in order
    sends,                  \* send_report / send_alert calls made
    interval,               \* interval_seconds of the configuration
    reporting_schedule,     \* RenderServiceManager.reporting_schedule
    reset_logs_after_send,  \* RenderServiceManager.reset_logs_after_send
    stop_time,              \* when the process is stopped
    last_report_date,       \* the local of check_reporting_schedule
    report_cycles,          \* the report cycles started, in order
    rp_pc,                  \* where check_reporting_schedule is
    rp_wake,                \* when its time.sleep ends
    rp_raised,              \* report cycles that ended in the except branch
    rp_cycle,               \* the report cycle that is inside send_report, if any
    logs_gen,               \* how many list objects self.logs has been bound to
    lp_pc,                  \* where the thread calling log_ping is
    lp_entry,               \* the local log_entry of log_ping
    lp_ref,                 \* the list object it loaded from self.logs
    lp_buf,                 \* what its json.dump has buffered
    lp_calls,               \* log_ping calls that returned or raised
    cl_pc,                  \* where the thread calling clear_logs is
    cl_buf,                 \* what its json.dump has buffered
    cl_calls,               \* clear_logs calls that returned
    since_clear,            \* entries appended since self.logs was last rebound
    last_call,              \* the last call made on the ServiceMonitor
    base_url,               \* RenderServiceManager.base_url
    main_pc,                \* where run() of the main thread is
    restarts                \* the restarts of the scheduler process, in order

cfgVars == <<endpoints, methods, interval, reporting_schedule,
             reset_logs_after_send, stop_time>>
mainVars == <<base_url, main_pc, restarts>>
storeVars == <<logs, logs_is_list, log_file>>
probeVars == <<service_down_notified, alerts, observations, last_results,
               last_outcomes,
               ka_pc, ka_raised, cycles, ka_wake, ka_starts>>
sendVars == <<send_call, send_events, sends>>
reportVars == <<last_report_date, report_cycles, rp_pc, rp_wake, rp_raised,
                rp_cycle>>
threadVars == <<logs_gen, lp_pc, lp_entry, lp_ref, lp_buf, lp_calls, cl_pc,
                cl_buf, cl_calls, since_clear, last_call>>

vars == <<cfgVars, mainVars, now, storeVars, backups, probeVars, sendVars, reportVars,
          threadVars>>

(***************************************************************************)
(* Time                                                                    *)
(***************************************************************************)
\* the clock counts seconds; datetime.now().date(), .hour and .minute
SecondsPerDay == 86400
DateOf(t) == t \div SecondsPerDay
HourOf(t) == (t % SecondsPerDay) \div 3600
MinuteOf(t) == (t % 3600) \div 60

\* a loop is off (its thread was not started), running its cycle, or in its
\* time.sleep until its wake time.  A cycle's effects are taken at the
\* instant it starts; the clock moves when the loop that wakes first wakes.
Stopped == stop_time # None /\ now >= stop_time
KeepAliveRunnable == ka_pc = "cycle" /\ cycles < MaxCycles /\ ~Stopped
ReportRunnable == rp_pc = "run" /\ ~Stopped

(***************************************************************************)
(* Scheduler, probe loop (main.py)                                         *)
(***************************************************************************)
\* the endpoint and method lists a deployment configures
EndpointConfigs ==
    { [endpoints |-> <<"/ping", "/health">>, methods |-> <<"GET">>],
      [endpoints |-> <<"/ping">>, methods |-> <<"GET", "HEAD">>] }

\* what the HTTP client does in the probe loop's cycles
CycleOutcomes == {Response(200, 50), Timeout}

\* what disk and mail transport do for an alert of the probe loop, and
\* whether an exception is raised while the alert is built and sent
AlertEnvs ==
    { [disk |-> "ok", config_ok |-> TRUE, smtp |-> <<TRUE>>, raises |-> FALSE],
      [disk |-> "ok", config_ok |-> TRUE, smtp |-> <<FALSE>>, raises |-> FALSE] }

\* the same, and an alert during which an exception is raised
AlertOutcomeEnvs ==
    AlertEnvs
    \cup { [disk |-> "ok", config_ok |-> TRUE, smtp |-> <<FALSE>>, raises |-> TRUE] }

\* what the file system does for the saves of one probe cycle
CycleDisks == {"ok", "write_fails"}

\* AlertFor without the hasattr test on the down branch
AlertFor_NoSuppression(healthy, down_notified) ==
    IF ~healthy THEN <<"DOWNTIME">>
    ELSE IF healthy /\ down_notified THEN <<"RECOVERY">>
    ELSE <<>>

\* the alert ping_service sends for an observation in a state, or none
AlertFor(healthy, down_notified) ==
    IF ~healthy /\ ~down_notified THEN <<"DOWNTIME">>
    ELSE IF healthy /\ down_notified THEN <<"RECOVERY">>
    ELSE <<>>

\* NotifiedAfter without the assignment of the down branch
NotifiedAfter_NoSet(healthy, down_notified) ==
    IF healthy /\ down_notified THEN FALSE
    ELSE down_notified

\* NotifiedAfter without the delattr of the recovery branch
NotifiedAfter_NoReset(healthy, down_notified) ==
    IF ~healthy /\ ~down_notified THEN TRUE
    ELSE down_notified

\* the flag after ping_service's if/elif
NotifiedAfter(healthy, down_notified) ==
    IF ~healthy /\ ~down_notified THEN TRUE
    ELSE IF healthy /\ down_notified THEN FALSE
    ELSE down_notified

\* a state machine that changes state only when the alert was delivered
FlagAfterAlert_OnlyIfDelivered(healthy, down_notified, delivered) ==
    IF AlertFor(healthy, down_notified) # <<>> /\ ~delivered THEN down_notified
    ELSE NotifiedAfter(healthy, down_notified)

\* the flag after ping_service's if/elif, whose branches set or delete it
\* after _send_immediate_downtime_alert / _send_service_recovery_alert
\* returned, whatever the alert's outcome was
FlagAfterAlert(healthy, down_notified, delivered) ==
    NotifiedAfter(healthy, down_notified)

\* _send_immediate_downtime_alert and _send_service_recovery_alert: the
\* send_alert call inside try/except; an exception ends the attempt
manager_alert_events(alert, env) ==
    IF env.raises THEN << [ev |-> "raised"] >>
    ELSE send_alert_events(alert, env)

\* the position of run_keep_alive after the try/except around ping_service
AfterPingCycle_Fatal(raised) == IF raised THEN "terminated" ELSE "sleep"

AfterPingCycle(raised) == "sleep"

\* the DOWNTIME / RECOVERY payloads
alert_report(alert_type, results, t) ==
    IF alert_type = "DOWNTIME"
    THEN [alert_type |-> "DOWNTIME", timestamp |-> t,
          failed_endpoints |-> SelectSeq(results, LAMBDA r : r.status = "DOWN"),
          total_endpoints_checked |-> Len(results)]
    ELSE [alert_type |-> alert_type, timestamp |-> t,
          recovery_endpoints |-> SelectSeq(results, LAMBDA r : r.status = "UP")]

\* interval_seconds default of run_keep_alive
DefaultInterval == 60

\* the seconds one probe and one log_ping take
ProbeSeconds == 1

\* max(0, interval - cycle_duration)
SleepTime_None(cycle_duration) == 0

SleepTime(cycle_duration) ==
    IF interval - cycle_duration > 0 THEN interval - cycle_duration ELSE 0

\* RenderServiceManager.__init__: no flag, nothing sent, no loop started
InitManager ==
    /\ service_down_notified = FALSE
    /\ alerts = <<>>
    /\ backups = <<>>
    /\ observations = <<>>
    /\ last_results = <<>>
    /\ last_outcomes = <<>>
    /\ ka_raised = 0
    /\ cycles = 0
    /\ ka_wake = 0
    /\ ka_starts = <<>>
    /\ send_call = [kind |-> "none"]
    /\ send_events = <<>>
    /\ sends = 0
    /\ last_report_date = None
    /\ report_cycles = <<>>
    /\ rp_wake = 0
    /\ rp_raised = 0
    /\ rp_cycle = NoneObj
    /\ logs_gen = 0
    /\ lp_pc = "idle"
    /\ lp_entry = NoneObj
    /\ lp_ref = 0
    /\ lp_buf = <<>>
    /\ lp_calls = 0
    /\ cl_pc = "idle"
    /\ cl_buf = <<>>
    /\ cl_calls = 0
    /\ since_clear = <<>>
    /\ last_call = [op |-> "none", entry |-> NoneObj]

\* the base URL of a deployment that has one
TargetUrl == "https://service.onrender.com"

\* the main thread: "off" when no RenderServiceManager runs in the process,
\* "start" before run() is called, "returned" once run() has returned,
\* "wait" in the "while True: time.sleep(1)" at the end of run()
InitMain(url, pc) ==
    /\ base_url = url
    /\ main_pc = pc
    /\ restarts = <<>>

\* ServiceMonitor.__init__ on the file f
InitStore(f) ==
    /\ log_file = f
    /\ logs = load_logs(f)
    /\ logs_is_list = load_is_list(f)

\* the probe loop alone, started at time 0
Init ==
    /\ InitManager
    /\ InitMain(TargetUrl, "wait")
    /\ \E c \in EndpointConfigs : endpoints = c.endpoints /\ methods = c.methods
    /\ interval = DefaultInterval
    /\ reporting_schedule = <<0, 0>>
    /\ reset_logs_after_send = TRUE
    /\ stop_time = None
    /\ now = 0
    /\ \E f \in {FileMissing, FileNotAList} : InitStore(f)
    /\ ka_pc = "cycle"
    /\ rp_pc = "off"

\* one pass of the try block of run_keep_alive: ping_service
PingCycle(outs, env, disk) ==
    LET n == Len(endpoints) * Len(methods)
        results == ping_all_endpoints(endpoints, methods, outs, now)
        healthy == is_service_healthy(results)
        kind == AlertFor(healthy, service_down_notified)
        t_alert == now + n * ProbeSeconds
        events == IF kind = <<>> THEN <<>>
                  ELSE manager_alert_events(alert_report(kind[1], results, t_alert), env)
        raised == log_ping_raises(logs_is_list)
        entries == logged_results(results, t_alert)
        cycle_duration == IF raised THEN n * ProbeSeconds ELSE 2 * n * ProbeSeconds
    IN /\ KeepAliveRunnable
       /\ cycles' = cycles + 1
       /\ observations' = Append(observations, healthy)
       /\ last_results' = results
       /\ last_outcomes' = outs
       /\ service_down_notified' = FlagAfterAlert(healthy, service_down_notified,
                                                  send_result(events))
       /\ alerts' = IF kind = <<>> THEN alerts
                    ELSE Append(alerts, [alert_type |-> kind[1], cycle |-> cycles + 1,
                                         delivered |-> send_result(events),
                                         raised |-> env.raises])
       /\ backups' = backups \o backups_of(events)
       /\ IF raised
          THEN /\ UNCHANGED <<logs, log_file>>
               /\ ka_raised' = ka_raised + 1
          ELSE /\ logs' = logs \o entries
               /\ log_file' = save_logs(logs \o entries, log_file, disk)
               /\ UNCHANGED ka_raised
       /\ ka_pc' = AfterPingCycle(raised)
       /\ ka_wake' = now + cycle_duration + SleepTime(cycle_duration)
       /\ ka_starts' = Append(ka_starts, [cycle_start |-> now,
                                          cycle_duration |-> cycle_duration])
       /\ UNCHANGED <<cfgVars, mainVars, now, logs_is_list, sendVars, reportVars,
                      threadVars>>

KeepAliveCycle ==
    \E outs \in [1..(Len(endpoints) * Len(methods)) -> CycleOutcomes],
       env \in AlertEnvs, disk \in CycleDisks :
        PingCycle(outs, env, disk)

\* the time.sleep of run_keep_alive ends
KeepAliveSleep ==
    /\ ka_pc = "sleep"
    /\ ~ReportRunnable
    /\ rp_pc = "sleep" => ka_wake <= rp_wake
    /\ ka_pc' = "cycle"
    /\ now' = IF ka_wake > now THEN ka_wake ELSE now
    /\ UNCHANGED <<cfgVars, mainVars, storeVars, backups, service_down_notified, alerts,
                   observations, last_results, last_outcomes, ka_raised,
                   cycles, ka_wake,
                   ka_starts,
                   sendVars, reportVars, threadVars>>

Next == KeepAliveCycle \/ KeepAliveSleep

Spec == Init /\ [][Next]_vars

\* an interval_seconds shorter than a probe cycle that logs its results
ShortInterval == 3

\* the probe loop alone, with the default and with a short interval
InitCadence ==
    /\ InitManager
    /\ InitMain(TargetUrl, "wait")
    /\ endpoints = <<"/ping", "/health">>
    /\ methods = <<"GET">>
    /\ interval \in {DefaultInterval, ShortInterval}
    /\ reporting_schedule = <<0, 0>>
    /\ reset_logs_after_send = TRUE
    /\ stop_time = None
    /\ now = 0
    /\ \E f \in {FileMissing, FileNotAList} : InitStore(f)
    /\ ka_pc = "cycle"
    /\ rp_pc = "off"

SpecCadence == InitCadence /\ [][Next]_vars

(***************************************************************************)
(* Scheduler, restart of the process (main.py)                             *)
(***************************************************************************)
NotifiedAfterRestart_Kept(down_notified) == down_notified

\* hasattr(self, '_service_down_notified') on the RenderServiceManager of
\* the new process: __init__ sets no such attribute and nothing persists it
NotifiedAfterRestart(down_notified) == FALSE

\* the process is stopped while run_keep_alive sleeps and is started again:
\* a new RenderServiceManager with a new ServiceMonitor on the same file,
\* whose probe loop begins with a cycle
ManagerRestart ==
    /\ ka_pc = "sleep"
    /\ Len(restarts) < MaxRestarts
    /\ restarts' = Append(restarts, [after_cycle |-> cycles,
                                     notified |-> service_down_notified])
    /\ service_down_notified' = NotifiedAfterRestart(service_down_notified)
    /\ logs' = load_logs(log_file)
    /\ logs_is_list' = load_is_list(log_file)
    /\ ka_pc' = "cycle"
    /\ now' = IF ka_wake > now THEN ka_wake ELSE now
    /\ UNCHANGED <<cfgVars, base_url, main_pc, log_file, backups, alerts,
                   observations, last_results, last_outcomes, ka_raised, cycles,
                   ka_wake, ka_starts, sendVars, reportVars, threadVars>>

\* the probe loop of the first process, with one endpoint and one method
InitRestart ==
    /\ InitManager
    /\ InitMain(TargetUrl, "wait")
    /\ endpoints = <<"/ping">>
    /\ methods = <<"GET">>
    /\ interval = DefaultInterval
    /\ reporting_schedule = <<0, 0>>
    /\ reset_logs_after_send = TRUE
    /\ stop_time = None
    /\ now = 0
    /\ InitStore(FileMissing)
    /\ ka_pc = "cycle"
    /\ rp_pc = "off"

NextRestart == KeepAliveCycle \/ KeepAliveSleep \/ ManagerRestart

SpecRestart == InitRestart /\ [][NextRestart]_vars

(***************************************************************************)
(* Scheduler, probe loop with alerts that fail or raise (main.py)          *)
(***************************************************************************)
\* a probe cycle whose alert is delivered, is not delivered, or raises
AlertCycle ==
    \E outs \in [1..(Len(endpoints) * Len(methods)) -> CycleOutcomes],
       env \in AlertOutcomeEnvs, disk \in CycleDisks :
        PingCycle(outs, env, disk)

NextAlert == AlertCycle \/ KeepAliveSleep

SpecAlert == InitRestart /\ [][NextAlert]_vars

(***************************************************************************)
(* Prober calls (keep_alive.py)                                            *)
(***************************************************************************)
\* the endpoint and method lists of a RenderKeepAlive (an empty list is
\* replaced by the default in __init__)
ProbeConfigs ==
    { [endpoints |-> <<"/ping">>, methods |-> <<"GET">>],
      [endpoints |-> <<"/ping">>, methods |-> <<"GET", "HEAD">>],
      [endpoints |-> <<"/ping", "/api/health">>, methods |-> <<"POST">>],
      [endpoints |-> <<"/ping", "/api/health">>, methods |-> <<"GET", "HEAD">>] }

\* status codes and response times of a probe that got a response
ProbeCodes == {200, 301, 399, 400, 404, 500}
ProbeElapsed == {0, 50}

\* what one request can meet
ProbeOutcomes ==
    {Response(c, e) : c \in ProbeCodes, e \in ProbeElapsed}
    \cup {Timeout, ConnectionError, RequestError, OtherError}

\* one outcome of each kind: success, HTTP error, timeout, connection error,
\* other exception
ProbeKinds == {Response(200, 50), Response(500, 50), Timeout, ConnectionError, OtherError}

\* the outcomes drawn for a call that makes n requests
ProbeOutcomesFor(n) == IF n = 1 THEN ProbeOutcomes ELSE ProbeKinds

\* a RenderKeepAlive alone
InitProbe ==
    /\ InitManager
    /\ InitMain(TargetUrl, "off")
    /\ \E c \in ProbeConfigs : endpoints = c.endpoints /\ methods = c.methods
    /\ interval = DefaultInterval
    /\ reporting_schedule = <<0, 0>>
    /\ reset_logs_after_send = TRUE
    /\ stop_time = None
    /\ now = 0
    /\ InitStore(FileMissing)
    /\ ka_pc = "off"
    /\ rp_pc = "off"

\* one call ping_all_endpoints()
ProbeAllCall(outs) ==
    /\ last_results' = ping_all_endpoints(endpoints, methods, outs, now)
    /\ last_outcomes' = outs
    /\ observations' = <<>>
    /\ UNCHANGED <<cfgVars, mainVars, now, storeVars, backups, service_down_notified, alerts,
                   ka_pc, ka_raised, cycles, ka_wake, ka_starts, sendVars,
                   reportVars, threadVars>>

ProbeAll ==
    \E outs \in [1..(Len(endpoints) * Len(methods)) ->
                    ProbeOutcomesFor(Len(endpoints) * Len(methods))] :
        ProbeAllCall(outs)

\* one call is_service_healthy(results), on the results of the last
\* ping_all_endpoints call or on an empty list
CheckHealth ==
    /\ observations = <<>>
    /\ observations' = <<is_service_healthy(last_results)>>
    /\ UNCHANGED <<cfgVars, mainVars, now, storeVars, backups, service_down_notified, alerts,
                   last_results, last_outcomes, ka_pc, ka_raised, cycles, ka_wake,
                   ka_starts, sendVars, reportVars, threadVars>>

NextProbe == ProbeAll \/ CheckHealth

SpecProbe == InitProbe /\ [][NextProbe]_vars

(***************************************************************************)
(* Scheduler, report loop (main.py)                                        *)
(***************************************************************************)
\* time.sleep(30) and time.sleep(120) of check_reporting_schedule
TickSleep_Coarse == 120

TickSleep == 30
PostReportSleep_Short == 30

PostReportSleep == 120

\* the report loop is started on day 1 at 23:59:00 and runs until ten
\* minutes past the last midnight
ReportStart == 2 * SecondsPerDay - 60
ReportStop == (1 + MaxDays) * SecondsPerDay + 600

\* a probe interval of twelve hours
SlowInterval == 43200

\* reporting.schedule (hour, minute) and reporting.reset_logs_after_send
ReportConfigs ==
    { [schedule |-> <<0, 0>>, reset |-> TRUE],
      [schedule |-> <<0, 0>>, reset |-> FALSE],
      [schedule |-> <<9, 30>>, reset |-> TRUE] }

\* what disk, SMTP and the Log Store's file do during one report cycle
ReportEnvs ==
    { [disk |-> "ok", config_ok |-> TRUE, smtp |-> <<TRUE, TRUE, TRUE>>, save |-> "ok"],
      [disk |-> "ok", config_ok |-> TRUE, smtp |-> <<FALSE, TRUE, TRUE>>, save |-> "ok"],
      [disk |-> "ok", config_ok |-> TRUE, smtp |-> <<FALSE, FALSE, FALSE>>, save |-> "ok"],
      [disk |-> "ok", config_ok |-> TRUE, smtp |-> <<TRUE, TRUE, TRUE>>, save |-> "write_fails"] }

\* is_midnight and should_send_report
is_midnight(t) == HourOf(t) = 0 /\ MinuteOf(t) = 0

should_send_report(t, last) == is_midnight(t) /\ last # DateOf(t)

\* the position of check_reporting_schedule after the try/except
AfterReportCycle(raised) == "sleep"

\* a loop that marks the date whatever the cycle's outcome
DateAfterCycle_Always(last, d, raised, has_report, sent) == d

\* last_report_date after a cycle on date d
DateAfterCycle(last, d, raised, has_report, sent) ==
    IF raised THEN last
    ELSE IF has_report THEN (IF sent THEN d ELSE last)
    ELSE d

\* whether the cycle calls clear_logs
ClearsAfterSend(sent, configured) == sent /\ configured

\* the report loop alone; log_ping is called every twelve hours
InitReport ==
    /\ InitManager
    /\ InitMain(TargetUrl, "wait")
    /\ endpoints = <<"/ping", "/health">>
    /\ methods = <<"GET">>
    /\ interval = SlowInterval
    /\ \E c \in ReportConfigs :
          /\ reporting_schedule = c.schedule
          /\ reset_logs_after_send = c.reset
    /\ stop_time = ReportStop
    /\ now = ReportStart
    /\ \E f \in {FileMissing, FileNotAList} : InitStore(f)
    /\ ka_pc = "off"
    /\ rp_pc = "run"

\* one pass of the while loop of check_reporting_schedule
ReportLoopPass(env) ==
    LET current_date == DateOf(now)
        should == should_send_report(now, last_report_date)
        end_time == now
        start_time == end_time - SecondsPerDay
        raised == should /\ get_logs_raises(logs_is_list, start_time, end_time)
        report == IF should /\ ~raised
                  THEN generate_report(logs, start_time, end_time)
                  ELSE NoneObj
        has_report == report # NoneObj
        events == IF has_report
                  THEN send_report_events(report, DefaultRetryCount, env)
                  ELSE <<>>
        sent == has_report /\ send_result(events)
        cleared == ClearsAfterSend(sent, reset_logs_after_send)
        outcome == IF raised THEN "raised"
                   ELSE IF ~has_report THEN "nodata"
                   ELSE IF sent THEN "sent" ELSE "failed"
    IN /\ ReportRunnable
       /\ IF should
          THEN /\ report_cycles' =
                     Append(report_cycles,
                            [entry |-> "loop", at |-> now, date |-> current_date,
                             hour |-> HourOf(now), minute |-> MinuteOf(now),
                             outcome |-> outcome, cleared |-> cleared])
               /\ last_report_date' =
                     DateAfterCycle(last_report_date, current_date, raised,
                                    has_report, sent)
               /\ rp_raised' = IF raised THEN rp_raised + 1 ELSE rp_raised
               /\ backups' = backups \o backups_of(events)
               /\ IF cleared
                  THEN /\ logs' = <<>>
                       /\ logs_is_list' = TRUE
                       /\ log_file' = save_logs(<<>>, log_file, env.save)
                  ELSE UNCHANGED storeVars
               /\ rp_wake' = now + delay_of(events) + PostReportSleep
               /\ rp_pc' = AfterReportCycle(raised)
          ELSE /\ rp_wake' = now + TickSleep
               /\ rp_pc' = "sleep"
               /\ UNCHANGED <<report_cycles, last_report_date, rp_raised,
                              backups, storeVars>>
       /\ UNCHANGED <<cfgVars, mainVars, now, probeVars, sendVars, rp_cycle,
                      threadVars>>

ReportLoop == \E env \in ReportEnvs : ReportLoopPass(env)

\* the time.sleep of check_reporting_schedule ends
ReportWake ==
    /\ rp_pc = "sleep"
    /\ ~KeepAliveRunnable
    /\ ka_pc = "sleep" => rp_wake <= ka_wake
    /\ rp_pc' = "run"
    /\ now' = IF rp_wake > now THEN rp_wake ELSE now
    /\ UNCHANGED <<cfgVars, mainVars, storeVars, backups, probeVars, sendVars,
                   last_report_date, report_cycles, rp_wake, rp_raised,
                   rp_cycle, threadVars>>

\* one log_ping call of a caller that probes every interval seconds
LogPing ==
    /\ now % interval = 0
    /\ logs_is_list
    /\ Len(logs) < MaxStoreLen
    /\ IF logs = <<>> THEN TRUE ELSE logs[Len(logs)].timestamp < now
    /\ logs' = Append(logs, log_entry("/ping", "GET", "UP", 50, NoneObj, 200, now))
    /\ log_file' = save_logs(logs', log_file, "ok")
    /\ UNCHANGED <<cfgVars, mainVars, now, logs_is_list, backups, probeVars, sendVars,
                   reportVars, threadVars>>

NextReport == ReportLoop \/ ReportWake \/ LogPing

SpecReport == InitReport /\ [][NextReport]_vars

\* the seconds past 23:59:00 at which the report loop is started
StartPhases == {0, 17}

\* the report loop alone, started at any phase of its tick; log_ping is
\* called once a day
InitDaily ==
    /\ InitManager
    /\ InitMain(TargetUrl, "wait")
    /\ endpoints = <<"/ping", "/health">>
    /\ methods = <<"GET">>
    /\ interval = SecondsPerDay
    /\ reporting_schedule = <<0, 0>>
    /\ reset_logs_after_send = TRUE
    /\ stop_time = ReportStop
    /\ \E phase \in StartPhases : now = ReportStart + phase
    /\ InitStore(FileMissing)
    /\ ka_pc = "off"
    /\ rp_pc = "run"

\* a mail transport that accepts every report, and one that accepts none
DailyEnvs ==
    { [disk |-> "ok", config_ok |-> TRUE, smtp |-> <<TRUE, TRUE, TRUE>>, save |-> "ok"],
      [disk |-> "ok", config_ok |-> TRUE, smtp |-> <<FALSE, FALSE, FALSE>>, save |-> "ok"] }

DailyLoop == \E env \in DailyEnvs : ReportLoopPass(env)

NextDaily == DailyLoop \/ ReportWake \/ LogPing

\* the report thread keeps being scheduled and its sleeps end
FairSpecDaily ==
    /\ InitDaily
    /\ [][NextDaily]_vars
    /\ WF_vars(DailyLoop)
    /\ WF_vars(ReportWake)

(***************************************************************************)
(* Notifier calls (reporting.py)                                           *)
(***************************************************************************)
\* the largest retry_count passed to send_report
MaxRetryCount == 3

\* send_report / send_alert calls made
MaxSends == 2

\* Log Store contents the reports sent here are built from
SendStores ==
    { << log_entry("/ping", "GET", "UP", 50, NoneObj, 200, 10) >>,
      << log_entry("/ping", "GET", "UP", 50, NoneObj, 200, 10),
         log_entry("/health", "GET", "DOWN", TimeoutSeconds * 1000,
                   [msg |-> "Request timeout after", arg |-> TimeoutSeconds],
                   None, 11) >> }

\* reports as the scheduler builds them (both bounds given) and as
\* generate_report() without bounds builds them
SendReports ==
    { generate_report(st, 0, 20) : st \in SendStores }
    \cup { generate_report(st, None, None) :
             st \in {s \in SendStores : Len(s) = 1} }

\* the alert payloads: the scheduler's DOWNTIME and RECOVERY alerts and the
\* TEST alert of the /alert entry point
SendAlerts ==
    { [alert_type |-> "DOWNTIME", timestamp |-> 12],
      [alert_type |-> "RECOVERY", timestamp |-> 12],
      [alert_type |-> "TEST", timestamp |-> 12] }

\* what the file system, the SMTP configuration and the SMTP transport do;
\* without a complete SMTP configuration the transport is never reached
SendEnvs ==
    { env \in [disk : {"ok", "json_fails", "html_fails"},
               config_ok : BOOLEAN,
               smtp : [1..MaxRetryCount -> BOOLEAN]] :
        ~env.config_ok => \A i \in 1..MaxRetryCount : ~env.smtp[i] }

\* a ServiceReporter alone
InitSend ==
    /\ InitManager
    /\ InitMain(TargetUrl, "off")
    /\ endpoints = <<"/ping", "/health">>
    /\ methods = <<"GET">>
    /\ interval = DefaultInterval
    /\ reporting_schedule = <<0, 0>>
    /\ reset_logs_after_send = TRUE
    /\ stop_time = None
    /\ now = 0
    /\ InitStore(FileMissing)
    /\ ka_pc = "off"
    /\ rp_pc = "off"

\* one call send_report(report, retry_count)
SendReport ==
    \E report \in SendReports, retry_count \in 0..MaxRetryCount, env \in SendEnvs :
        LET events == send_report_events(report, retry_count, env)
        IN /\ sends < MaxSends
           /\ sends' = sends + 1
           /\ send_call' = [kind |-> "report", payload |-> report,
                            retry_count |-> retry_count,
                            result |-> send_result(events)]
           /\ send_events' = events
           /\ backups' = backups \o backups_of(events)
           /\ now' = now + delay_of(events)
           /\ UNCHANGED <<cfgVars, mainVars, storeVars, probeVars, reportVars, threadVars>>

\* one call send_alert(alert_report)
SendAlert ==
    \E alert \in SendAlerts, env \in SendEnvs :
        LET events == send_alert_events(alert, env)
        IN /\ sends < MaxSends
           /\ sends' = sends + 1
           /\ send_call' = [kind |-> "alert", payload |-> alert,
                            retry_count |-> 1,
                            transport_ok |-> env.config_ok /\ env.smtp[1],
                            result |-> send_result(events)]
           /\ send_events' = events
           /\ backups' = backups \o backups_of(events)
           /\ UNCHANGED <<cfgVars, mainVars, now, storeVars, probeVars, reportVars,
                          threadVars>>

NextSend == SendReport \/ SendAlert

SpecSend == InitSend /\ [][NextSend]_vars

(***************************************************************************)
(* Scheduler, both loops (main.py run)                                     *)
(***************************************************************************)
\* both threads are started half a minute before midnight, and the process
\* is stopped 160 seconds later
LoopsStart == 2 * SecondsPerDay - 30
LoopsHorizon == 160

\* run() has started both threads
InitLoops ==
    /\ InitManager
    /\ InitMain(TargetUrl, "wait")
    /\ endpoints = <<"/ping", "/health">>
    /\ methods = <<"GET">>
    /\ interval = DefaultInterval
    /\ reporting_schedule = <<0, 0>>
    /\ reset_logs_after_send = TRUE
    /\ stop_time = LoopsStart + LoopsHorizon
    /\ now = LoopsStart
    /\ \E f \in {FileMissing, FileNotAList} : InitStore(f)
    /\ ka_pc = "cycle"
    /\ rp_pc = "run"

NextLoops == KeepAliveCycle \/ KeepAliveSleep \/ ReportLoop \/ ReportWake

SpecLoops == InitLoops /\ [][NextLoops]_vars

\* both threads keep being scheduled and their sleeps end
FairSpecLoops ==
    /\ InitLoops
    /\ [][NextLoops]_vars
    /\ WF_vars(KeepAliveCycle)
    /\ WF_vars(KeepAliveSleep)
    /\ WF_vars(ReportLoop)
    /\ WF_vars(ReportWake)

(***************************************************************************)
(* Scheduler, both loops, the report cycle step by step (main.py)          *)
(***************************************************************************)
\* the process is stopped this many seconds after both threads were started
RetryHorizon == 900

\* a scheduler that runs both loops in the thread of run()
LoopsShareThread_Single(pc) == pc = "sending"

\* whether the probe loop has to wait while the report loop is at pc: run()
\* starts each loop in a thread of its own
LoopsShareThread(pc) == FALSE

\* run() has started both threads; one endpoint is probed with one method
InitRetry ==
    /\ InitManager
    /\ InitMain(TargetUrl, "wait")
    /\ endpoints = <<"/ping">>
    /\ methods = <<"GET">>
    /\ interval = DefaultInterval
    /\ reporting_schedule = <<0, 0>>
    /\ reset_logs_after_send \in BOOLEAN
    /\ stop_time = LoopsStart + RetryHorizon
    /\ now = LoopsStart
    /\ InitStore(FileMissing)
    /\ ka_pc = "cycle"
    /\ rp_pc = "run"

\* one pass of the while loop of check_reporting_schedule up to the point
\* where send_report has saved its backup: the attempts and the delays
\* between them take until rp_wake
ReportBeginPass(env) ==
    LET current_date == DateOf(now)
        should == should_send_report(now, last_report_date)
        end_time == now
        start_time == end_time - SecondsPerDay
        raised == should /\ get_logs_raises(logs_is_list, start_time, end_time)
        selected == IF should /\ ~raised
                    THEN get_logs(logs, start_time, end_time)
                    ELSE <<>>
        report == IF should /\ ~raised
                  THEN generate_report(logs, start_time, end_time)
                  ELSE NoneObj
        has_report == report # NoneObj
        events == IF has_report
                  THEN send_report_events(report, DefaultRetryCount, env)
                  ELSE <<>>
    IN /\ ReportRunnable
       /\ IF should
          THEN /\ rp_cycle' = [at |-> now, date |-> current_date,
                               raised |-> raised, has_report |-> has_report,
                               selected |-> selected,
                               sent |-> has_report /\ send_result(events),
                               save |-> env.save]
               /\ backups' = backups \o backups_of(events)
               /\ rp_wake' = now + delay_of(events)
               /\ rp_pc' = "sending"
          ELSE /\ rp_wake' = now + TickSleep
               /\ rp_pc' = "sleep"
               /\ UNCHANGED <<rp_cycle, backups>>
       /\ UNCHANGED <<cfgVars, mainVars, now, storeVars, probeVars, sendVars,
                      last_report_date, report_cycles, rp_raised, threadVars>>

ReportBegin == \E env \in ReportEnvs : ReportBeginPass(env)

\* send_report returns (or there was nothing to send): the rest of the pass,
\* up to the time.sleep(120)
ReportEnd ==
    LET t == IF rp_wake > now THEN rp_wake ELSE now
        cleared == ClearsAfterSend(rp_cycle.sent, reset_logs_after_send)
        outcome == IF rp_cycle.raised THEN "raised"
                   ELSE IF ~rp_cycle.has_report THEN "nodata"
                   ELSE IF rp_cycle.sent THEN "sent" ELSE "failed"
    IN /\ rp_pc = "sending"
       /\ ~Stopped
       /\ rp_wake < stop_time
       /\ ~(KeepAliveRunnable /\ ~LoopsShareThread(rp_pc))
       /\ ka_pc = "sleep" => rp_wake <= ka_wake
       /\ now' = t
       /\ report_cycles' =
             Append(report_cycles,
                    [entry |-> "loop", at |-> rp_cycle.at, date |-> rp_cycle.date,
                     hour |-> HourOf(rp_cycle.at), minute |-> MinuteOf(rp_cycle.at),
                     outcome |-> outcome, cleared |-> cleared,
                     ended |-> t,
                     reported |-> rp_cycle.selected,
                     removed |-> IF cleared THEN logs ELSE <<>>])
       /\ last_report_date' =
             DateAfterCycle(last_report_date, rp_cycle.date, rp_cycle.raised,
                            rp_cycle.has_report, rp_cycle.sent)
       /\ rp_raised' = IF rp_cycle.raised THEN rp_raised + 1 ELSE rp_raised
       /\ IF cleared
          THEN /\ logs' = <<>>
               /\ logs_is_list' = TRUE
               /\ log_file' = save_logs(<<>>, log_file, rp_cycle.save)
          ELSE UNCHANGED storeVars
       /\ rp_wake' = t + PostReportSleep
       /\ rp_pc' = AfterReportCycle(rp_cycle.raised)
       /\ rp_cycle' = NoneObj
       /\ UNCHANGED <<cfgVars, mainVars, backups, probeVars, sendVars, threadVars>>

\* a probe cycle of the probe thread
RetryKeepAliveCycle == ~LoopsShareThread(rp_pc) /\ KeepAliveCycle

\* the time.sleep of run_keep_alive ends, while send_report has not returned
\* before
RetryKeepAliveSleep ==
    /\ rp_pc = "sending" => ka_wake <= rp_wake
    /\ KeepAliveSleep

NextRetry ==
    \/ RetryKeepAliveCycle
    \/ RetryKeepAliveSleep
    \/ ReportBegin
    \/ ReportEnd
    \/ ReportWake

SpecRetry == InitRetry /\ [][NextRetry]_vars

(***************************************************************************)
(* Scheduler, run() (main.py)                                              *)
(***************************************************************************)
RunRefuses_Never(url) == FALSE

\* "if not self.base_url" of run()
RunRefuses(url) == url = ""

\* a RenderServiceManager constructed with or without a base URL, before
\* run() is called
InitRun ==
    /\ InitManager
    /\ \E url \in {"", TargetUrl} : InitMain(url, "start")
    /\ endpoints = <<"/ping", "/health">>
    /\ methods = <<"GET">>
    /\ interval = DefaultInterval
    /\ reporting_schedule = <<0, 0>>
    /\ reset_logs_after_send = TRUE
    /\ stop_time = LoopsStart + LoopsHorizon
    /\ now = LoopsStart
    /\ \E f \in {FileMissing, FileNotAList} : InitStore(f)
    /\ ka_pc = "off"
    /\ rp_pc = "off"

\* run(): return at once without a base URL, else start both threads
RunCall ==
    /\ main_pc = "start"
    /\ IF RunRefuses(base_url)
       THEN /\ main_pc' = "returned"
            /\ UNCHANGED <<ka_pc, rp_pc>>
       ELSE /\ main_pc' = "wait"
            /\ ka_pc' = "cycle"
            /\ rp_pc' = "run"
    /\ UNCHANGED <<cfgVars, base_url, restarts, now, storeVars, backups,
                   service_down_notified, alerts, observations, last_results,
                   last_outcomes, ka_raised, cycles, ka_wake, ka_starts,
                   sendVars, last_report_date, report_cycles, rp_wake,
                   rp_raised, rp_cycle, threadVars>>

NextRun == RunCall \/ KeepAliveCycle \/ KeepAliveSleep \/ ReportLoop \/ ReportWake

SpecRun == InitRun /\ [][NextRun]_vars

(***************************************************************************)
(* HTTP entry points (api/index.py)                                        *)
(***************************************************************************)
\* MonitoringService.endpoints and MonitoringService.methods
CronEndpoints == <<"/ping", "/api/health">>
CronMethods == <<"GET", "HEAD">>

\* the time between two calls of the external scheduler
CronStep == 60

\* what the four probes of one call meet
CronOutcomes ==
    { [i \in 1..4 |-> Response(200, 50)],
      [i \in 1..4 |-> Timeout],
      [i \in 1..4 |-> IF i = 1 THEN Response(500, 50) ELSE Response(200, 50)] }

\* whether midnight_report_cron calls clear_logs
CronClearsAfterSend(sent, configured) == sent

\* no request served yet
InitCron ==
    /\ InitManager
    /\ InitMain(TargetUrl, "off")
    /\ endpoints = CronEndpoints
    /\ methods = CronMethods
    /\ interval = DefaultInterval
    /\ reporting_schedule = <<0, 0>>
    /\ reset_logs_after_send \in BOOLEAN
    /\ stop_time = None
    /\ now = ReportStart
    /\ \E f \in {FileMissing, FileNotAList} : InitStore(f)
    /\ ka_pc = "off"
    /\ rp_pc = "off"

CronCalls == cycles + Len(report_cycles)

\* GET /cron/keep-alive
KeepAliveCronCall(outs, env, disk) ==
    LET loaded == load_logs(log_file)
        is_list == load_is_list(log_file)
        n == Len(endpoints) * Len(methods)
        results == ping_all_endpoints(endpoints, methods, outs, now)
        healthy == is_service_healthy(results)
        raised == log_ping_raises(is_list)
        t_log == now + n * ProbeSeconds
        entries == logged_results(results, t_log)
        alerting == ~raised /\ ~healthy
        events == IF alerting
                  THEN send_alert_events(alert_report("DOWNTIME", results, t_log), env)
                  ELSE <<>>
    IN /\ CronCalls < MaxCronCalls
       /\ cycles' = cycles + 1
       /\ observations' = Append(observations, healthy)
       /\ last_results' = results
       /\ last_outcomes' = outs
       /\ logs_is_list' = is_list
       /\ IF raised
          THEN /\ logs' = loaded
               /\ UNCHANGED log_file
               /\ ka_raised' = ka_raised + 1
          ELSE /\ logs' = loaded \o entries
               /\ log_file' = save_logs(loaded \o entries, log_file, disk)
               /\ UNCHANGED ka_raised
       /\ alerts' = IF alerting
                    THEN Append(alerts, [alert_type |-> "DOWNTIME", cycle |-> cycles + 1,
                                         delivered |-> send_result(events)])
                    ELSE alerts
       /\ backups' = backups \o backups_of(events)
       /\ now' = now + CronStep
       /\ UNCHANGED <<cfgVars, mainVars, service_down_notified, ka_pc, ka_wake, ka_starts,
                      sendVars,
                      reportVars, threadVars>>

KeepAliveCron ==
    \E outs \in CronOutcomes, env \in AlertEnvs, disk \in {"ok"} :
        KeepAliveCronCall(outs, env, disk)

\* GET /cron/midnight-report
MidnightReportCronCall(env) ==
    LET loaded == load_logs(log_file)
        is_list == load_is_list(log_file)
        end_time == now
        start_time == end_time - SecondsPerDay
        raised == get_logs_raises(is_list, start_time, end_time)
        report == IF raised THEN NoneObj
                  ELSE generate_report(loaded, start_time, end_time)
        has_report == report # NoneObj
        events == IF has_report
                  THEN send_report_events(report, DefaultRetryCount, env)
                  ELSE <<>>
        sent == has_report /\ send_result(events)
        cleared == CronClearsAfterSend(sent, reset_logs_after_send)
        outcome == IF raised THEN "raised"
                   ELSE IF ~has_report THEN "nodata"
                   ELSE IF sent THEN "sent" ELSE "failed"
    IN /\ CronCalls < MaxCronCalls
       /\ report_cycles' =
             Append(report_cycles,
                    [entry |-> "http", at |-> now, date |-> DateOf(now),
                     hour |-> HourOf(now), minute |-> MinuteOf(now),
                     outcome |-> outcome, cleared |-> cleared,
                     probes |-> cycles])
       /\ rp_raised' = IF raised THEN rp_raised + 1 ELSE rp_raised
       /\ backups' = backups \o backups_of(events)
       /\ logs_is_list' = IF cleared THEN TRUE ELSE is_list
       /\ logs' = IF cleared THEN <<>> ELSE loaded
       /\ log_file' = IF cleared THEN save_logs(<<>>, log_file, env.save)
                      ELSE log_file
       /\ now' = now + delay_of(events) + CronStep
       /\ UNCHANGED <<cfgVars, mainVars, probeVars, sendVars, last_report_date, rp_pc,
                      rp_wake, rp_cycle, threadVars>>

\* what disk, SMTP and the Log Store's file do during one request: as for the
\* report loop, and a log file that cannot be opened for writing
CronReportEnvs ==
    ReportEnvs
    \cup { [disk |-> "ok", config_ok |-> TRUE, smtp |-> <<TRUE, TRUE, TRUE>>,
            save |-> "open_fails"] }

MidnightReportCron == \E env \in CronReportEnvs : MidnightReportCronCall(env)

NextCron == KeepAliveCron \/ MidnightReportCron

SpecCron == InitCron /\ [][NextCron]_vars

(***************************************************************************)
(* Entry points that probe and log (api/index.py, pythonanywhere_task.py)  *)
(***************************************************************************)
\* the JSON text of a status code passed as a status: a number, or null
CodeText(code) == IF code = None THEN "null" ELSE ToString(code)

\* the status run_monitoring_check passes to log_ping:
\* 200 if success else result.get("status_code", 500); the key is always
\* present, so the default 500 is never taken
task_status(result) ==
    IF result.status = "UP" THEN CodeText(200) ELSE CodeText(result.status_code)

\* the entries run_monitoring_check appends for its results
task_logged_results(results, t) ==
    [i \in 1..Len(results) |->
        log_entry(results[i].endpoint, results[i].method, task_status(results[i]),
                  results[i].response_time_ms,
                  IF results[i].status = "UP" THEN NoneObj ELSE results[i].error,
                  results[i].status_code, t + i - 1)]

\* noon of day 1 and midnight of day 2
EntryStarts == {SecondsPerDay + 12 * 3600, 2 * SecondsPerDay}

\* no entry point called yet
InitEntry ==
    /\ InitManager
    /\ InitMain(TargetUrl, "off")
    /\ endpoints = CronEndpoints
    /\ methods = CronMethods
    /\ interval = DefaultInterval
    /\ reporting_schedule = <<0, 0>>
    /\ reset_logs_after_send = TRUE
    /\ stop_time = None
    /\ now \in EntryStarts
    /\ \E f \in {FileMissing, FileNotAList} : InitStore(f)
    /\ ka_pc = "off"
    /\ rp_pc = "off"

\* GET /ping: probe, then log every result on a fresh ServiceMonitor; an
\* exception of log_ping ends the handler with a 500 response
PingHandlerCall(outs, disk) ==
    LET loaded == load_logs(log_file)
        is_list == load_is_list(log_file)
        n == Len(endpoints) * Len(methods)
        results == ping_all_endpoints(endpoints, methods, outs, now)
        raised == log_ping_raises(is_list)
        t_log == now + n * ProbeSeconds
        entries == logged_results(results, t_log)
    IN /\ cycles < MaxEntryCalls
       /\ cycles' = cycles + 1
       /\ observations' = Append(observations, is_service_healthy(results))
       /\ last_results' = results
       /\ last_outcomes' = outs
       /\ logs_is_list' = is_list
       /\ IF raised
          THEN /\ logs' = loaded
               /\ UNCHANGED log_file
               /\ ka_raised' = ka_raised + 1
          ELSE /\ logs' = loaded \o entries
               /\ log_file' = save_logs(loaded \o entries, log_file, disk)
               /\ UNCHANGED ka_raised
       /\ now' = now + CronStep
       /\ UNCHANGED <<cfgVars, mainVars, backups, service_down_notified, alerts,
                      ka_pc, ka_wake, ka_starts, sendVars, reportVars, threadVars>>

PingHandler == \E outs \in CronOutcomes : PingHandlerCall(outs, "ok")

\* GET /cron/keep-alive
EntryKeepAliveCron ==
    /\ cycles < MaxEntryCalls
    /\ KeepAliveCron

\* run_monitoring_check: probe, log every result, send a DOWNTIME alert when
\* no endpoint is UP, and in the hour after midnight build and send the
\* report of the last 24 hours; any exception ends the run
MonitoringCheckCall(outs, env, report_env, disk) ==
    LET loaded == load_logs(log_file)
        is_list == load_is_list(log_file)
        n == Len(endpoints) * Len(methods)
        results == ping_all_endpoints(endpoints, methods, outs, now)
        healthy == is_service_healthy(results)
        raised == log_ping_raises(is_list)
        t_log == now + n * ProbeSeconds
        entries == task_logged_results(results, t_log)
        store == loaded \o entries
        alerting == ~raised /\ ~healthy
        alert_events ==
            IF alerting
            THEN send_alert_events(alert_report("DOWNTIME", results, t_log + n), env)
            ELSE <<>>
        end_time == t_log + n
        start_time == end_time - SecondsPerDay
        reporting == ~raised /\ HourOf(end_time) = 0
        selected == get_logs(store, start_time, end_time)
        report == generate_report(store, start_time, end_time)
        report_events ==
            IF reporting /\ report # NoneObj
            THEN send_report_events(report, DefaultRetryCount, report_env)
            ELSE <<>>
    IN /\ cycles < MaxEntryCalls
       /\ cycles' = cycles + 1
       /\ observations' = Append(observations, healthy)
       /\ last_results' = results
       /\ last_outcomes' = outs
       /\ logs_is_list' = is_list
       /\ IF raised
          THEN /\ logs' = loaded
               /\ UNCHANGED log_file
               /\ ka_raised' = ka_raised + 1
          ELSE /\ logs' = store
               /\ log_file' = save_logs(store, log_file, disk)
               /\ UNCHANGED ka_raised
       /\ alerts' = IF alerting
                    THEN Append(alerts, [alert_type |-> "DOWNTIME", cycle |-> cycles + 1,
                                         delivered |-> send_result(alert_events)])
                    ELSE alerts
       /\ backups' = backups \o backups_of(alert_events) \o backups_of(report_events)
       /\ last_call' = IF reporting
                       THEN [op |-> "generate_report", start_time |-> start_time,
                             end_time |-> end_time, report |-> report,
                             selected |-> selected]
                       ELSE last_call
       /\ now' = now + delay_of(report_events) + CronStep
       /\ UNCHANGED <<cfgVars, mainVars, service_down_notified, ka_pc, ka_wake,
                      ka_starts, sendVars, reportVars, logs_gen, lp_pc, lp_entry,
                      lp_ref, lp_buf, lp_calls, cl_pc, cl_buf, cl_calls,
                      since_clear>>

MonitoringCheck ==
    \E outs \in CronOutcomes, env \in AlertEnvs, report_env \in ReportEnvs :
        MonitoringCheckCall(outs, env, report_env, "ok")

NextEntry == PingHandler \/ EntryKeepAliveCron \/ MonitoringCheck

SpecEntry == InitEntry /\ [][NextEntry]_vars

(***************************************************************************)
(* One ServiceMonitor, one caller (monitoring.py)                          *)
(***************************************************************************)
\* what the file system does during one _save_logs
StoreDisks == {"ok", "open_fails", "write_fails"}

\* the files a ServiceMonitor is constructed on
StoreFiles ==
    { FileMissing, FileCorrupt, FileNotAList,
      FileList(<< log_entry("/ping", "GET", "UP", 50, NoneObj, 200, 0) >>) }

InitOneCaller ==
    /\ InitManager
    /\ InitMain(TargetUrl, "off")
    /\ endpoints = <<"/ping", "/health">>
    /\ methods = <<"GET">>
    /\ interval = DefaultInterval
    /\ reporting_schedule = <<0, 0>>
    /\ reset_logs_after_send = TRUE
    /\ stop_time = None
    /\ now = 1
    /\ \E f \in StoreFiles : InitStore(f)
    /\ ka_pc = "off"
    /\ rp_pc = "off"

\* one call of log_ping, from its first line to its return
LogPingCall(status, disk) ==
    LET entry == log_entry("/ping", "GET", status,
                           IF status = "UP" THEN 50 ELSE None,
                           IF status = "UP" THEN NoneObj
                           ELSE [msg |-> "Connection error", arg |-> 0],
                           IF status = "UP" THEN 200 ELSE None, now)
        raised == log_ping_raises(logs_is_list)
    IN /\ lp_calls < MaxAppends
       /\ lp_calls' = lp_calls + 1
       /\ now' = now + 1
       /\ IF raised
          THEN /\ UNCHANGED <<logs, log_file, since_clear>>
               /\ last_call' = [op |-> "log_ping_raised", entry |-> entry]
          ELSE /\ logs' = Append(logs, entry)
               /\ log_file' = save_logs(Append(logs, entry), log_file, disk)
               /\ since_clear' = Append(since_clear, entry)
               /\ last_call' = [op |-> "log_ping", entry |-> entry]
       /\ UNCHANGED <<cfgVars, mainVars, logs_is_list, backups, probeVars, sendVars,
                      reportVars, logs_gen, lp_pc, lp_entry, lp_ref, lp_buf,
                      cl_pc, cl_buf, cl_calls>>

StoreLogPing == \E status \in {"UP", "DOWN"}, disk \in StoreDisks : LogPingCall(status, disk)

\* one call of clear_logs
ClearLogsCall(disk) ==
    /\ cl_calls < MaxClears
    /\ cl_calls' = cl_calls + 1
    /\ logs' = <<>>
    /\ logs_is_list' = TRUE
    /\ logs_gen' = logs_gen + 1
    /\ log_file' = save_logs(<<>>, log_file, disk)
    /\ since_clear' = <<>>
    /\ last_call' = [op |-> "clear_logs", entry |-> NoneObj]
    /\ UNCHANGED <<cfgVars, mainVars, now, backups, probeVars, sendVars, reportVars,
                   lp_pc, lp_entry, lp_ref, lp_buf, lp_calls, cl_pc, cl_buf>>

StoreClearLogs == \E disk \in StoreDisks : ClearLogsCall(disk)

\* the process dies and a new ServiceMonitor is constructed on the file
StoreRestart ==
    /\ last_call.op \in {"log_ping", "log_ping_raised", "clear_logs"}
    /\ logs' = load_logs(log_file)
    /\ logs_is_list' = load_is_list(log_file)
    /\ logs_gen' = logs_gen + 1
    /\ since_clear' = <<>>
    /\ last_call' = [op |-> IF last_call.op = "log_ping"
                            THEN "restart_after_log_ping" ELSE "restart",
                     entry |-> last_call.entry]
    /\ UNCHANGED <<cfgVars, mainVars, now, log_file, backups, probeVars, sendVars,
                   reportVars, lp_pc, lp_entry, lp_ref, lp_buf, lp_calls,
                   cl_pc, cl_buf, cl_calls>>

\* where a process that dies inside _save_logs leaves the file: truncated by
\* open(log_file, "w"), with a part of the text of json.dump, or with all of it
CrashPoints == {"after_open", "partial", "complete"}

crashed_file(store, point) ==
    CASE point = "after_open" -> FileEmpty
      [] point = "partial" -> FileCorrupt
      [] OTHER -> FileList(store)

\* one call of log_ping during which the process dies inside _save_logs, and
\* the construction of a new ServiceMonitor on the file it left
LogPingCrash(status, point) ==
    LET entry == log_entry("/ping", "GET", status,
                           IF status = "UP" THEN 50 ELSE None,
                           IF status = "UP" THEN NoneObj
                           ELSE [msg |-> "Connection error", arg |-> 0],
                           IF status = "UP" THEN 200 ELSE None, now)
        left == crashed_file(Append(logs, entry), point)
    IN /\ lp_calls < MaxAppends
       /\ ~log_ping_raises(logs_is_list)
       /\ lp_calls' = lp_calls + 1
       /\ now' = now + 1
       /\ log_file' = left
       /\ logs' = load_logs(left)
       /\ logs_is_list' = load_is_list(left)
       /\ logs_gen' = logs_gen + 1
       /\ since_clear' = <<>>
       /\ last_call' = [op |-> "restart_after_crash", entry |-> entry,
                        point |-> point,
                        persisted |-> load_logs(log_file)]
       /\ UNCHANGED <<cfgVars, mainVars, backups, probeVars, sendVars,
                      reportVars, lp_pc, lp_entry, lp_ref, lp_buf,
                      cl_pc, cl_buf, cl_calls>>

StoreCrash == \E status \in {"UP", "DOWN"}, point \in CrashPoints : LogPingCrash(status, point)

NextStore == StoreLogPing \/ StoreClearLogs \/ StoreRestart \/ StoreCrash

SpecStore == InitOneCaller /\ [][NextStore]_vars

(***************************************************************************)
(* One ServiceMonitor, two threads (monitoring.py, main.py run)            *)
(***************************************************************************)
InitThreads ==
    /\ InitManager
    /\ InitMain(TargetUrl, "wait")
    /\ endpoints = <<"/ping", "/health">>
    /\ methods = <<"GET">>
    /\ interval = DefaultInterval
    /\ reporting_schedule = <<0, 0>>
    /\ reset_logs_after_send = TRUE
    /\ stop_time = None
    /\ now = 1
    /\ \E f \in { FileMissing,
                  FileList(<< log_entry("/ping", "GET", "UP", 50, NoneObj, 200, 0) >>) } :
          InitStore(f)
    /\ ka_pc = "off"
    /\ rp_pc = "off"

lpUnchanged == <<cfgVars, mainVars, logs_is_list, backups, probeVars, sendVars, reportVars,
                 cl_pc, cl_buf, cl_calls>>
clUnchanged == <<cfgVars, mainVars, now, logs_is_list, backups, probeVars, sendVars,
                 reportVars, lp_pc, lp_entry, lp_ref, lp_buf, lp_calls,
                 last_call>>

\* log_ping, lines 59-69: the entry is built and self.logs is loaded
LpCall ==
    /\ lp_pc = "idle"
    /\ lp_calls < MaxAppends
    /\ lp_entry' = log_entry("/ping", "GET", "UP", 50, NoneObj, 200, now)
    /\ lp_ref' = logs_gen
    /\ lp_pc' = "append"
    /\ now' = now + 1
    /\ UNCHANGED <<lpUnchanged, logs, log_file, logs_gen, lp_buf, lp_calls,
                   since_clear, last_call>>

\* log_ping, line 69: append on the list object that was loaded
LpAppend ==
    /\ lp_pc = "append"
    /\ logs' = IF lp_ref = logs_gen THEN Append(logs, lp_entry) ELSE logs
    /\ since_clear' = Append(since_clear, lp_entry)
    /\ lp_pc' = "open"
    /\ UNCHANGED <<lpUnchanged, now, log_file, logs_gen, lp_entry, lp_ref,
                   lp_buf, lp_calls, last_call>>

\* _save_logs, line 51: open(log_file, "w")
LpOpen ==
    /\ lp_pc = "open"
    /\ log_file' = FileEmpty
    /\ lp_pc' = "dump"
    /\ UNCHANGED <<lpUnchanged, now, logs, logs_gen, lp_entry, lp_ref, lp_buf,
                   lp_calls, since_clear, last_call>>

\* _save_logs, line 52: json.dump(self.logs, f)
LpDump ==
    /\ lp_pc = "dump"
    /\ lp_buf' = logs
    /\ lp_pc' = "close"
    /\ UNCHANGED <<lpUnchanged, now, logs, log_file, logs_gen, lp_entry, lp_ref,
                   lp_calls, since_clear, last_call>>

\* _save_logs, the end of the with block, and the return of log_ping
LpClose ==
    /\ lp_pc = "close"
    /\ log_file' = write_at_start(lp_buf, log_file)
    /\ lp_pc' = "idle"
    /\ lp_calls' = lp_calls + 1
    /\ last_call' = [op |-> "log_ping", entry |-> lp_entry]
    /\ UNCHANGED <<lpUnchanged, now, logs, logs_gen, lp_entry, lp_ref, lp_buf,
                   since_clear>>

\* clear_logs, line 153: self.logs = []
ClCall ==
    /\ cl_pc = "idle"
    /\ cl_calls < MaxClears
    /\ logs' = <<>>
    /\ logs_gen' = logs_gen + 1
    /\ since_clear' = <<>>
    /\ cl_pc' = "open"
    /\ UNCHANGED <<clUnchanged, log_file, cl_buf, cl_calls>>

ClOpen ==
    /\ cl_pc = "open"
    /\ log_file' = FileEmpty
    /\ cl_pc' = "dump"
    /\ UNCHANGED <<clUnchanged, logs, logs_gen, cl_buf, cl_calls, since_clear>>

ClDump ==
    /\ cl_pc = "dump"
    /\ cl_buf' = logs
    /\ cl_pc' = "close"
    /\ UNCHANGED <<clUnchanged, logs, log_file, logs_gen, cl_calls, since_clear>>

ClClose ==
    /\ cl_pc = "close"
    /\ log_file' = write_at_start(cl_buf, log_file)
    /\ cl_pc' = "idle"
    /\ cl_calls' = cl_calls + 1
    /\ UNCHANGED <<clUnchanged, logs, logs_gen, cl_buf, since_clear>>

NextThreads ==
    \/ LpCall \/ LpAppend \/ LpOpen \/ LpDump \/ LpClose
    \/ ClCall \/ ClOpen \/ ClDump \/ ClClose

SpecThreads == InitThreads /\ [][NextThreads]_vars

(***************************************************************************)
(* Queries on a ServiceMonitor (monitoring.py)                             *)
(***************************************************************************)
\* the times entries were logged at, and the bounds of a query
QueryTimes == {1, 2, 3}
QueryBounds == {None, 2}

\* the entries of the store: a fast and an immediate success, a connection
\* error and a timeout
QueryEntries ==
    {log_entry("/ping", "GET", "UP", ms, NoneObj, 200, t) :
        ms \in {0, 50}, t \in QueryTimes}
    \cup {log_entry("/ping", "GET", "DOWN", None, [msg |-> "Connection error"], None, t) :
        t \in QueryTimes}
    \cup {log_entry("/ping", "GET", "DOWN", TimeoutSeconds * 1000,
                    [msg |-> "Request timeout after", arg |-> TimeoutSeconds], None, t) :
        t \in QueryTimes}

QueryStores == UNION {[1..n -> QueryEntries] : n \in 0..MaxQueryLen}

\* a ServiceMonitor constructed on a file that holds a list of entries
InitQuery ==
    /\ InitManager
    /\ InitMain(TargetUrl, "off")
    /\ endpoints = <<"/ping">>
    /\ methods = <<"GET">>
    /\ interval = DefaultInterval
    /\ reporting_schedule = <<0, 0>>
    /\ reset_logs_after_send = TRUE
    /\ stop_time = None
    /\ now = 3
    /\ \E items \in QueryStores : InitStore(FileList(items))
    /\ ka_pc = "off"
    /\ rp_pc = "off"

\* one call get_logs(start_time, end_time)
GetLogsCall(start_time, end_time) ==
    /\ last_call' = [op |-> "get_logs", start_time |-> start_time,
                     end_time |-> end_time,
                     result |-> get_logs(logs, start_time, end_time)]
    /\ UNCHANGED <<cfgVars, mainVars, now, storeVars, backups, probeVars, sendVars,
                   reportVars, logs_gen, lp_pc, lp_entry, lp_ref, lp_buf,
                   lp_calls, cl_pc, cl_buf, cl_calls, since_clear>>

QueryGetLogs == \E start_time \in QueryBounds, end_time \in QueryBounds :
                    GetLogsCall(start_time, end_time)

\* one call generate_report(start_time, end_time)
GenerateReportCall(start_time, end_time) ==
    /\ last_call' = [op |-> "generate_report", start_time |-> start_time,
                     end_time |-> end_time,
                     report |-> generate_report(logs, start_time, end_time)]
    /\ UNCHANGED <<cfgVars, mainVars, now, storeVars, backups, probeVars, sendVars,
                   reportVars, logs_gen, lp_pc, lp_entry, lp_ref, lp_buf,
                   lp_calls, cl_pc, cl_buf, cl_calls, since_clear>>

QueryGenerateReport == \E start_time \in QueryBounds, end_time \in QueryBounds :
                           GenerateReportCall(start_time, end_time)

NextQuery == QueryGetLogs \/ QueryGenerateReport

SpecQuery == InitQuery /\ [][NextQuery]_vars

(***************************************************************************)
(* Construction of a ServiceMonitor (monitoring.py)                        *)
(***************************************************************************)
LoadEntries ==
    { log_entry("/ping", "GET", "UP", 50, NoneObj, 200, 0),
      log_entry("/ping", "HEAD", "DOWN", None, [msg |-> "Connection error"], None, 0) }

\* what logs/uptime_logs.json can hold when the process starts
LoadFiles ==
    { FileMissing, FileCorrupt, FileEmpty, FileGarbled(1), FileNotAList,
      FileUndecodable }
    \cup { FileList(items) :
             items \in UNION {[1..n -> LoadEntries] : n \in 0..MaxStoreLen} }

\* the process before ServiceMonitor(log_file) is called
InitLoad ==
    /\ InitManager
    /\ InitMain(TargetUrl, "off")
    /\ endpoints = <<"/ping">>
    /\ methods = <<"GET">>
    /\ interval = DefaultInterval
    /\ reporting_schedule = <<0, 0>>
    /\ reset_logs_after_send = TRUE
    /\ stop_time = None
    /\ now = 1
    /\ log_file \in LoadFiles
    /\ logs = <<>>
    /\ logs_is_list = TRUE
    /\ ka_pc = "off"
    /\ rp_pc = "off"

\* ServiceMonitor.__init__: self.logs = self._load_logs()
LoadConstruct ==
    /\ last_call.op = "none"
    /\ IF load_logs_raises(log_file)
       THEN /\ last_call' = [op |-> "init_raised", entry |-> NoneObj]
            /\ UNCHANGED <<logs, logs_is_list>>
       ELSE /\ last_call' = [op |-> "init", entry |-> NoneObj]
            /\ logs' = load_logs(log_file)
            /\ logs_is_list' = load_is_list(log_file)
    /\ UNCHANGED <<cfgVars, mainVars, now, log_file, backups, probeVars, sendVars,
                   reportVars, logs_gen, lp_pc, lp_entry, lp_ref, lp_buf,
                   lp_calls, cl_pc, cl_buf, cl_calls, since_clear>>

\* log_ping on the constructed ServiceMonitor
LoadLogPing ==
    /\ last_call.op \in {"init", "log_ping"}
    /\ StoreLogPing

NextLoad == LoadConstruct \/ LoadLogPing

SpecLoad == InitLoad /\ [][NextLoad]_vars

(***************************************************************************)
(* Properties of the probe loop                                            *)
(***************************************************************************)
\* the alerts sent by probe cycle i
AlertsOfCycle(i) == {k \in 1..Len(alerts) : alerts[k].cycle = i}

\* the state machine's state before probe cycle i: HEALTHY at the start and
\* after a healthy observation
HealthyBefore(i) == i = 1 \/ observations[i - 1]

AlertTypes == [k \in 1..Len(alerts) |-> alerts[k].alert_type]

\* C1: an unhealthy observation sends a DOWNTIME alert exactly when the state
\* is HEALTHY and sends nothing in DOWN_NOTIFIED; the observations
\* [down, down, down, up] send one DOWNTIME alert, on the first down, and one
\* RECOVERY alert, on the up.
C1_TransitionSuppression ==
    /\ \A i \in 1..Len(observations) :
          ~observations[i] =>
             /\ HealthyBefore(i) =>
                   /\ Cardinality(AlertsOfCycle(i)) = 1
                   /\ \A k \in AlertsOfCycle(i) : alerts[k].alert_type = "DOWNTIME"
             /\ ~HealthyBefore(i) => AlertsOfCycle(i) = {}
    /\ service_down_notified =
          (observations # <<>> /\ ~observations[Len(observations)])
    /\ observations = <<FALSE, FALSE, FALSE, TRUE>> =>
          /\ AlertTypes = <<"DOWNTIME", "RECOVERY">>
          /\ alerts[1].cycle = 1
          /\ alerts[2].cycle = 4

C1_Witness ==
    /\ observations = <<FALSE, FALSE, FALSE, TRUE>>
    /\ Len(alerts) = 2

\* the unhealthy-to-healthy edges of the observations
RecoveryEdges ==
    {i \in 2..Len(observations) : observations[i] /\ ~observations[i - 1]}

\* C2: a healthy observation in DOWN_NOTIFIED sends exactly one RECOVERY
\* alert and returns to HEALTHY; a healthy observation in HEALTHY sends
\* nothing; the next unhealthy observation sends a new DOWNTIME alert; the
\* RECOVERY alerts are as many as the unhealthy-to-healthy edges.
C2_RecoveryEdge ==
    /\ \A i \in 1..Len(observations) :
          observations[i] =>
             /\ ~HealthyBefore(i) =>
                   /\ Cardinality(AlertsOfCycle(i)) = 1
                   /\ \A k \in AlertsOfCycle(i) : alerts[k].alert_type = "RECOVERY"
             /\ HealthyBefore(i) => AlertsOfCycle(i) = {}
    /\ (observations # <<>> /\ observations[Len(observations)])
          => ~service_down_notified
    /\ \A i \in RecoveryEdges :
          (i < Len(observations) /\ ~observations[i + 1]) =>
             \E k \in AlertsOfCycle(i + 1) : alerts[k].alert_type = "DOWNTIME"
    /\ Cardinality({k \in 1..Len(alerts) : alerts[k].alert_type = "RECOVERY"})
          = Cardinality(RecoveryEdges)

C2_Witness ==
    /\ observations = <<FALSE, TRUE, TRUE, FALSE>>
    /\ AlertTypes = <<"DOWNTIME", "RECOVERY", "DOWNTIME">>

(***************************************************************************)
(* Properties of the notifier calls                                        *)
(***************************************************************************)
EventsOf(name) == {i \in 1..Len(send_events) : send_events[i].ev = name}

Called == send_call.kind # "none"

\* the backup comes first and no delivery attempt comes before it
BackupFirst ==
    /\ send_events # <<>>
    /\ \A i \in EventsOf("attempt") : i > 1

\* the last backup file on disk is the one of the last call's payload
BackupOnDisk ==
    /\ backups # <<>>
    /\ backups[Len(backups)].payload = send_call.payload
    /\ backups[Len(backups)].json

AllAttemptsFailed == \A i \in EventsOf("attempt") : ~send_events[i].ok

\* C6: when every delivery attempt fails, send_report(report, retry_count=N)
\* makes exactly N attempts, waits the retry delay after each attempt but the
\* last (N - 1 waits for N >= 1, none for N = 0) and returns failure.
C6_RetryExhaustion ==
    (send_call.kind = "report" /\ AllAttemptsFailed) =>
        /\ Cardinality(EventsOf("attempt")) = send_call.retry_count
        /\ Cardinality(EventsOf("delay")) =
              (IF send_call.retry_count = 0 THEN 0 ELSE send_call.retry_count - 1)
        /\ \A i \in EventsOf("delay") :
              /\ send_events[i].seconds = RetryDelay
              /\ i < Len(send_events)
              /\ send_events[i - 1].ev = "attempt"
              /\ send_events[i + 1].ev = "attempt"
        /\ ~send_call.result

C6_Witness ==
    /\ send_call.kind = "report"
    /\ send_call.retry_count = 3
    /\ AllAttemptsFailed
    /\ Cardinality(EventsOf("attempt")) = 3
    /\ Cardinality(EventsOf("delay")) = 2
    /\ now = 2 * RetryDelay

(***************************************************************************)
(* Properties of the report loop                                           *)
(***************************************************************************)
LoopCycles == {i \in 1..Len(report_cycles) : report_cycles[i].entry = "loop"}

\* C3: over every run of the report loop, whatever the outcome of a report
\* cycle (sent, failed, no data, raised), no two report cycles are started
\* on the same calendar day.
C3_OneCyclePerDay ==
    \A i \in LoopCycles, j \in LoopCycles :
        i # j => report_cycles[i].date # report_cycles[j].date

\* a cycle whose send failed left last_report_date unset, the loop went on
\* ticking through that day and started its next cycle a day later
C3_Witness ==
    /\ Len(report_cycles) = 2
    /\ report_cycles[1].outcome = "failed"
    /\ report_cycles[2].date = report_cycles[1].date + 1
    /\ report_cycles[2].outcome = "sent"

\* C4: every report cycle the loop starts is started at the configured
\* hour and minute (reporting.schedule).
C4_FiresAtConfiguredTime ==
    \A i \in LoopCycles :
        <<report_cycles[i].hour, report_cycles[i].minute>> = reporting_schedule

(***************************************************************************)
(* Properties of the HTTP entry points                                     *)
(***************************************************************************)
\* C7: a report cycle clears the Log Store only when its send succeeded and
\* reset_logs_after_send is true.
C7_ClearedOnlyWhenConfigured ==
    \A i \in 1..Len(report_cycles) :
        report_cycles[i].cleared =>
            report_cycles[i].outcome = "sent" /\ reset_logs_after_send

(***************************************************************************)
(* Properties of the Log Store                                             *)
(***************************************************************************)
InStore(entry, store) == \E i \in 1..Len(store) : store[i] = entry

\* C8: once the calls of both threads have completed, the file holds exactly
\* the in-memory collection, and every entry appended since the last clear
\* is in both.
C8_StoreSerialized ==
    (lp_pc = "idle" /\ cl_pc = "idle" /\ lp_calls + cl_calls > 0) =>
        /\ log_file = FileList(logs)
        /\ \A i \in 1..Len(since_clear) :
              /\ InStore(since_clear[i], logs)
              /\ InStore(since_clear[i], load_logs(log_file))

\* C9: when log_ping has returned, the file holds the in-memory collection
\* with the entry just appended, and a restart at that point loads a
\* collection that contains the entry.
C9_AppendIsPersisted ==
    /\ last_call.op = "log_ping" =>
          /\ log_file = FileList(logs)
          /\ InStore(last_call.entry, load_logs(log_file))
    /\ last_call.op = "restart_after_log_ping" =>
          InStore(last_call.entry, logs)

(***************************************************************************)
(* Properties of the two loops                                             *)
(***************************************************************************)
\* C10: neither loop ever leaves its while loop, a probe cycle that ended in
\* the except branch is followed by the next probe cycle, and a report cycle
\* that ended in the except branch is followed by the next pass of the
\* report loop.
C10_LoopsContinue ==
    /\ [](ka_pc \in {"cycle", "sleep"} /\ rp_pc \in {"run", "sleep"})
    /\ \A k \in 1..(MaxCycles - 1) :
          (cycles = k /\ ka_raised = k /\ ka_wake < stop_time) ~> (cycles = k + 1)
    /\ (rp_raised = 1 /\ rp_pc = "sleep" /\ rp_wake < stop_time) ~>
          (/\ ReportRunnable
           /\ report_cycles # <<>>
           /\ now > report_cycles[Len(report_cycles)].at)

\* three probe cycles and the midnight report cycle have raised; the probe
\* loop is in its sleep and the report loop is at the top of its while loop
C10_Witness ==
    /\ cycles = 3
    /\ ka_raised = 3
    /\ ka_pc = "sleep"
    /\ rp_raised = 1
    /\ ReportRunnable
    /\ now > report_cycles[1].at

(***************************************************************************)
(* Properties of the probe loop's cadence                                  *)
(***************************************************************************)
\* C11: a probe cycle starts only after the one before it has ended; when
\* that cycle took no longer than the interval the next one starts exactly
\* one interval after it started (so at least an interval apart), and when
\* it took longer the next one starts the moment it ended.
C11_NoOverlap ==
    /\ ka_pc \in {"cycle", "sleep"}
    /\ \A i \in 1..(Len(ka_starts) - 1) :
          LET this == ka_starts[i]
              next == ka_starts[i + 1]
          IN /\ next.cycle_start >= this.cycle_start + this.cycle_duration
             /\ IF this.cycle_duration <= interval
                THEN next.cycle_start = this.cycle_start + interval
                ELSE next.cycle_start = this.cycle_start + this.cycle_duration
    /\ ka_pc = "sleep" =>
          LET last == ka_starts[Len(ka_starts)]
          IN ka_wake = last.cycle_start +
                       (IF last.cycle_duration <= interval THEN interval
                        ELSE last.cycle_duration)

\* with the short interval, a cycle that outlasted the interval was followed
\* back-to-back, and a cycle that did not was followed an interval later
C11_Witness ==
    /\ interval = ShortInterval
    /\ Len(ka_starts) = 3
    /\ ka_starts[1].cycle_duration > interval
    /\ ka_starts[2].cycle_start = ka_starts[1].cycle_start + ka_starts[1].cycle_duration
    /\ ka_starts[3].cycle_start > ka_starts[2].cycle_start

(***************************************************************************)
(* Properties of the prober calls                                          *)
(***************************************************************************)
\* the position of the pair (endpoints[e], methods[m]) in endpoint-major order
PairIndex(e, m) == (e - 1) * Len(methods) + m

Probed == last_outcomes # <<>>

\* C12: ping_all_endpoints returns one result per pair of endpoints x
\* methods, in endpoint-major order, whatever each request met; a request
\* that failed gives a DOWN result and the pairs after it are still probed.
C12_OneResultPerPair ==
    Probed =>
        /\ Len(last_results) = Len(endpoints) * Len(methods)
        /\ \A e \in 1..Len(endpoints), m \in 1..Len(methods) :
              LET r == last_results[PairIndex(e, m)]
              IN /\ r.endpoint = endpoints[e]
                 /\ r.method = methods[m]
                 /\ r.status \in {"UP", "DOWN"}
                 /\ last_outcomes[PairIndex(e, m)].kind # "response" => r.status = "DOWN"

\* the first of four requests met a connection error and the last three
\* were probed all the same, the fourth one successfully
C12_Witness ==
    /\ Len(last_results) = 4
    /\ last_outcomes[1] = ConnectionError
    /\ last_results[1].status = "DOWN"
    /\ last_results[2].endpoint = "/ping"
    /\ last_results[2].method = "HEAD"
    /\ last_results[3].endpoint = "/api/health"
    /\ last_results[3].method = "GET"
    /\ last_results[4].status = "UP"

\* C13: a response with status code c gives status UP iff c < 400; for
\* c >= 400 the status is DOWN and the error carries the code; a timeout or
\* an exception gives status DOWN with an error.
C13_Classification ==
    \A i \in 1..Len(last_outcomes) :
        LET o == last_outcomes[i]
            r == last_results[i]
        IN IF o.kind = "response"
           THEN /\ r.status = "UP" <=> o.code < 400
                /\ o.code >= 400 =>
                      /\ r.status = "DOWN"
                      /\ r.error = [msg |-> "HTTP", arg |-> o.code]
                /\ o.code < 400 => r.error = NoneObj
           ELSE /\ r.status = "DOWN"
                /\ r.error # NoneObj

\* a response with code 400 was classified DOWN with the code in its error
C13_Witness ==
    /\ Len(last_outcomes) = 1
    /\ last_outcomes[1].kind = "response"
    /\ last_outcomes[1].code = 400
    /\ last_results[1].status = "DOWN"
    /\ last_results[1].error.arg = 400

\* C14: a timeout gives status DOWN, an error naming the timeout and a
\* response_time_ms of the timeout in milliseconds; any other exception
\* leaves response_time_ms absent.
C14_TimeoutLatency ==
    \A i \in 1..Len(last_outcomes) :
        LET o == last_outcomes[i]
            r == last_results[i]
        IN /\ o.kind = "timeout" =>
                 /\ r.status = "DOWN"
                 /\ r.error = [msg |-> "Request timeout after", arg |-> TimeoutSeconds]
                 /\ r.response_time_ms = TimeoutSeconds * 1000
           /\ o.kind \in {"connection", "request", "other"} =>
                 r.response_time_ms = None

\* of two requests one timed out and one met a connection error
C14_Witness ==
    /\ Len(last_outcomes) = 2
    /\ last_outcomes[1] = Timeout
    /\ last_results[1].response_time_ms = 10000
    /\ last_outcomes[2] = ConnectionError
    /\ last_results[2].response_time_ms = None

\* C15: is_service_healthy is true iff at least one result has status UP;
\* it is false for the empty list and for results that are all DOWN.
C15_OrHealth ==
    observations # <<>> =>
        /\ observations[1] <=> \E i \in 1..Len(last_results) : last_results[i].status = "UP"
        /\ last_results = <<>> => ~observations[1]
        /\ (\A i \in 1..Len(last_results) : last_results[i].status = "DOWN")
              => ~observations[1]

\* one UP among four results makes the service healthy
C15_Witness ==
    /\ observations = <<TRUE>>
    /\ Len(last_results) = 4
    /\ Cardinality({i \in 1..4 : last_results[i].status = "UP"}) = 1

\* the empty list is not healthy
C15_WitnessEmpty ==
    /\ observations = <<FALSE>>
    /\ last_results = <<>>

(***************************************************************************)
(* Properties of the queries                                               *)
(***************************************************************************)
\* positions of the store's entries that are not before start_time and not
\* after end_time
InBounds(start_time, end_time) ==
    {i \in 1..Len(logs) :
        /\ start_time = None \/ logs[i].timestamp >= start_time
        /\ end_time = None \/ logs[i].timestamp <= end_time}

UpIn(positions) == {i \in positions : logs[i].status = "UP"}

Reported == last_call.op = "generate_report"

\* C16: a report over N >= 1 entries of which U are UP has total_checks = N,
\* uptime_count = U, downtime_count = N - U and an uptime_percentage of
\* 100 * U / N; over no entry the report is None.
C16_Counts ==
    Reported =>
        LET selected == InBounds(last_call.start_time, last_call.end_time)
            N == Cardinality(selected)
            U == Cardinality(UpIn(selected))
            report == last_call.report
        IN IF N = 0
           THEN report = NoneObj
           ELSE /\ report # NoneObj
                /\ report.total_checks = N
                /\ report.uptime_count = U
                /\ report.downtime_count = N - U
                /\ report.uptime_percentage.num * N
                      = 100 * U * report.uptime_percentage.den

\* a report over two of three entries, one of them UP: 50 percent
C16_Witness ==
    /\ Reported
    /\ Len(logs) = 3
    /\ last_call.report # NoneObj
    /\ last_call.report.total_checks = 2
    /\ last_call.report.uptime_count = 1
    /\ last_call.report.downtime_count = 1
    /\ last_call.report.uptime_percentage = [num |-> 100, den |-> 2]

\* a report over no entry of a store that holds entries
C16_WitnessNone ==
    /\ Reported
    /\ Len(logs) = 2
    /\ last_call.report = NoneObj

\* C17: the average response time is the mean over the UP entries of the
\* window that carry a response time, 0 included; it is absent exactly when
\* there is no such entry.
C17_MeanOverUpLatencies ==
    (Reported /\ last_call.report # NoneObj) =>
        LET selected == get_logs(logs, last_call.start_time, last_call.end_time)
            Carries(log) == log.status = "UP" /\ log.response_time_ms # None
            carrying == SelectSeq(selected, Carries)
            average == last_call.report.average_response_time_x100
        IN IF carrying = <<>>
           THEN average = None
           ELSE /\ average # None
                /\ average = Round2(SumResponseTime(carrying), Len(carrying))

\* C18: a report covers the entries with start_time <= timestamp < end_time:
\* an entry logged exactly at start_time is counted, one logged exactly at
\* end_time is not.
C18_HalfOpenWindow ==
    (Reported /\ last_call.end_time # None) =>
        LET selected == {i \in 1..Len(logs) :
                            /\ last_call.start_time = None
                                  \/ logs[i].timestamp >= last_call.start_time
                            /\ logs[i].timestamp < last_call.end_time}
            report == last_call.report
        IN IF selected = {}
           THEN report = NoneObj
           ELSE /\ report # NoneObj
                /\ report.total_checks = Cardinality(selected)

\* the number of kept positions up to position i
Rank(i, positions) == Cardinality({k \in positions : k <= i})

\* C19: get_logs returns, in the order of the store, exactly the entries
\* that are not before start_time and not after end_time; an absent bound
\* does not restrict, and with both absent every entry is returned.
C19_QueryBounds ==
    last_call.op = "get_logs" =>
        LET kept == InBounds(last_call.start_time, last_call.end_time)
            result == last_call.result
        IN /\ Len(result) = Cardinality(kept)
           /\ \A i \in kept : result[Rank(i, kept)] = logs[i]
           /\ (last_call.start_time = None /\ last_call.end_time = None)
                 => result = logs

\* a query up to 2 on entries logged at 2, 3, 1 returns the first and the
\* third
C19_Witness ==
    /\ last_call.op = "get_logs"
    /\ last_call.start_time = None
    /\ last_call.end_time = 2
    /\ Len(logs) = 3
    /\ logs[1].timestamp = 2
    /\ logs[2].timestamp = 3
    /\ logs[3].timestamp = 1
    /\ last_call.result = <<logs[1], logs[3]>>

(***************************************************************************)
(* Properties of the construction                                          *)
(***************************************************************************)
\* C20: constructing the ServiceMonitor never fails: on a file that is
\* missing or does not hold a list of entries the store starts as an empty
\* list and the next log_ping succeeds; on a file that holds a list of
\* entries the store starts with those entries in order.
C20_LoadNeverFails ==
    /\ last_call.op # "init_raised"
    /\ last_call.op # "log_ping_raised"
    /\ last_call.op = "init" =>
          /\ logs_is_list
          /\ IF log_file.state = "list"
             THEN logs = log_file.items
             ELSE logs = <<>>

(***************************************************************************)
(* Properties of run()                                                     *)
(***************************************************************************)
\* C21: without a base URL run() returns without starting the probe loop or
\* the report loop, and no probe, log append, alert or report is performed.
C21_NoTargetNoRun ==
    base_url = "" =>
        /\ main_pc \in {"start", "returned"}
        /\ ka_pc = "off"
        /\ rp_pc = "off"
        /\ cycles = 0
        /\ last_results = <<>>
        /\ observations = <<>>
        /\ logs = <<>>
        /\ log_file \in {FileMissing, FileNotAList}
        /\ alerts = <<>>
        /\ backups = <<>>
        /\ report_cycles = <<>>
        /\ sends = 0

\* run() has returned for want of a base URL
C21_Witness ==
    /\ base_url = ""
    /\ main_pc = "returned"
    /\ ka_pc = "off"
    /\ rp_pc = "off"

(***************************************************************************)
(* Properties of the notifier calls: attempts                              *)
(***************************************************************************)
\* C22: a send_alert call makes at most one delivery attempt, never waits,
\* and returns the outcome of that attempt.
C22_SingleAttempt ==
    send_call.kind = "alert" =>
        /\ Cardinality(EventsOf("attempt")) = 1
        /\ EventsOf("delay") = {}
        /\ \A i \in EventsOf("attempt") :
              /\ i = Len(send_events)
              /\ send_call.result = send_events[i].ok

\* a DOWNTIME alert whose only attempt failed
C22_Witness ==
    /\ send_call.kind = "alert"
    /\ send_call.payload.alert_type = "DOWNTIME"
    /\ send_events[1].ev = "backup"
    /\ Len(send_events) = 2
    /\ ~send_events[2].ok
    /\ ~send_call.result

\* what send_report does about its attempts
StopsAtFirstSuccess ==
    /\ send_call.result <=> \E i \in EventsOf("attempt") : send_events[i].ok
    /\ \A i \in EventsOf("attempt") : send_events[i].ok => i = Len(send_events)
    /\ Cardinality(EventsOf("attempt")) <= send_call.retry_count
    /\ send_call.retry_count = 0 =>
          /\ EventsOf("attempt") = {}
          /\ ~send_call.result

C30_BothAlertBackups ==
    (send_call.kind = "alert" /\ send_events[1].ev = "backup"
        /\ send_events[1].html # "absent") =>
        /\ send_events[1].json
        /\ send_events[1].html = "rendered"
        /\ \A i \in EventsOf("attempt") : i > 1

(***************************************************************************)
(* Properties of the entry points that probe and log                       *)
(***************************************************************************)
\* the last call appended its results to the store
LoggedLast ==
    /\ last_results # <<>>
    /\ logs_is_list
    /\ Len(logs) >= Len(last_results)

\* C23: every entry of the Log Store has the status UP or DOWN, and it is UP
\* exactly when the probe result it records was UP, whichever entry point
\* wrote it.
C23_StatusIsUpOrDown ==
    /\ \A i \in 1..Len(logs) : logs[i].status \in {"UP", "DOWN"}
    /\ LoggedLast =>
          \A i \in 1..Len(last_results) :
              logs[Len(logs) - Len(last_results) + i].status = "UP"
                 <=> last_results[i].status = "UP"

\* C29: the downtime_incidents of a report are, in the order of the store,
\* the entries of the window that are not UP, one incident per entry, as
\* many as downtime_count.
C29_IncidentsAreTheNotUp ==
    (last_call.op = "generate_report" /\ last_call.report # NoneObj) =>
        LET not_up == SelectSeq(last_call.selected, LAMBDA log : log.status # "UP")
            incidents == last_call.report.downtime_incidents
        IN /\ Len(incidents) = last_call.report.downtime_count
           /\ Len(incidents) = Len(not_up)
           /\ \A i \in 1..Len(not_up) :
                 incidents[i] = [timestamp |-> not_up[i].timestamp,
                                 endpoint |-> not_up[i].endpoint,
                                 method |-> not_up[i].method,
                                 error |-> not_up[i].error]

(***************************************************************************)
(* Properties of the restart                                               *)
(***************************************************************************)
\* the process has just been started again
JustRestarted ==
    /\ restarts # <<>>
    /\ restarts[Len(restarts)].after_cycle = cycles
    /\ ka_pc = "cycle"

\* restarts made in DOWN_NOTIFIED whose first probe cycle afterwards has
\* run and found the service still down
StillDownRestarts ==
    {k \in 1..Len(restarts) :
        /\ restarts[k].notified
        /\ restarts[k].after_cycle + 1 <= Len(observations)
        /\ ~observations[restarts[k].after_cycle + 1]}

\* C24 as stated: after a restart the health state is HEALTHY, and when the
\* service was down and notified at shutdown and is still down, the first
\* probe cycle after the restart sends no DOWNTIME alert.
C24_NoDuplicateAfterRestart ==
    /\ JustRestarted => ~service_down_notified
    /\ \A k \in StillDownRestarts :
          AlertsOfCycle(restarts[k].after_cycle + 1) = {}

\* C24, amended: after a restart the health state is HEALTHY, and therefore,
\* when the service was down and notified at shutdown and is still down, the
\* first probe cycle after the restart sends a DOWNTIME alert again.
C24_HealthyAfterRestart ==
    /\ JustRestarted => ~service_down_notified
    /\ \A k \in StillDownRestarts :
          /\ Cardinality(AlertsOfCycle(restarts[k].after_cycle + 1)) = 1
          /\ \A a \in AlertsOfCycle(restarts[k].after_cycle + 1) :
                alerts[a].alert_type = "DOWNTIME"

\* down and notified in cycles 1 and 2, restart, still down in cycle 3: a
\* second DOWNTIME alert
C24_Witness ==
    /\ Len(restarts) = 1
    /\ restarts[1].notified
    /\ restarts[1].after_cycle = 2
    /\ observations = <<FALSE, FALSE, FALSE>>
    /\ AlertTypes = <<"DOWNTIME", "DOWNTIME">>
    /\ alerts[2].cycle = 3

(***************************************************************************)
(* Properties of the Log Store: failed saves                               *)
(***************************************************************************)
\* the last save did not bring the file to the in-memory collection
SaveFailed == log_file # FileList(logs)

\* C28: a failure of the save inside log_ping or clear_logs is not raised:
\* the call returns, the in-memory collection keeps the new entry (or is
\* empty after a clear), and log_ping raises only on a store that is not a
\* list, so the appends after a failed save go on.
C28_SaveFailureNotRaised ==
    /\ last_call.op = "log_ping" =>
          /\ logs_is_list
          /\ logs # <<>>
          /\ logs[Len(logs)] = last_call.entry
          /\ InStore(last_call.entry, since_clear)
    /\ last_call.op = "clear_logs" =>
          /\ logs_is_list
          /\ logs = <<>>
    /\ last_call.op = "log_ping_raised" => ~logs_is_list

\* two appends on a missing file that could not be opened for writing
\* either time: both entries are in memory
C28_Witness ==
    /\ last_call.op = "log_ping"
    /\ lp_calls = 2
    /\ cl_calls = 0
    /\ log_file = FileMissing
    /\ SaveFailed
    /\ Len(logs) = 2
    /\ logs[2] = last_call.entry

(***************************************************************************)
(* Properties of the report loop: the handled date                         *)
(***************************************************************************)
LastReportCycle == report_cycles[Len(report_cycles)]

\* C26: after a report cycle that ended in a successful send or found no
\* data, the date of the cycle is recorded as handled; after a cycle that
\* ended in a failed send or in an exception it is not.
C26_HandledDate ==
    report_cycles # <<>> =>
        /\ LastReportCycle.outcome \in {"sent", "nodata"} =>
              last_report_date = LastReportCycle.date
        /\ LastReportCycle.outcome \in {"failed", "raised"} =>
              last_report_date # LastReportCycle.date

\* a failed send on the first midnight left no date recorded, a successful
\* send on the second one records its date
C26_Witness ==
    /\ Len(report_cycles) = 2
    /\ report_cycles[1].outcome = "failed"
    /\ report_cycles[2].outcome = "sent"
    /\ report_cycles[2].date = report_cycles[1].date + 1
    /\ last_report_date = report_cycles[2].date

(***************************************************************************)
(* Properties of the probe cycle                                           *)
(***************************************************************************)
\* the entries the last probe cycle's results are logged as
LastLogged ==
    LET n == Len(last_results)
    IN [i \in 1..n |-> logs[Len(logs) - n + i]]

\* C27: a probe cycle over E endpoints and M methods evaluates the health
\* state machine and appends E*M entries to the Log Store, one per result in
\* probe order, whatever the delivery of the alert gave; two endpoints with
\* one method, one UP in 50 ms and one timing out, give two results, a
\* healthy observation, two new entries and a report average of 50.
C27_CycleAppendsAll ==
    cycles >= 1 =>
        LET n == Len(endpoints) * Len(methods)
        IN /\ Len(last_results) = n
           /\ Len(logs) = cycles * n
           /\ \A i \in 1..n :
                 /\ LastLogged[i].endpoint = last_results[i].endpoint
                 /\ LastLogged[i].method = last_results[i].method
                 /\ LastLogged[i].status = last_results[i].status
                 /\ LastLogged[i].response_time_ms = last_results[i].response_time_ms
                 /\ LastLogged[i].error = last_results[i].error
                 /\ LastLogged[i].status_code = last_results[i].status_code
           /\ last_outcomes = <<Response(200, 50), Timeout>> =>
                 /\ observations[cycles]
                 /\ generate_report(LastLogged, None, None).average_response_time_x100
                       = 50 * 100

(***************************************************************************)
(* Properties of the two loops while a report is being delivered           *)
(***************************************************************************)
\* the probe cycles started while send_report of the current report cycle
\* had not returned
StartedWhileSending ==
    { i \in 1..Len(ka_starts) :
        /\ rp_pc = "sending"
        /\ rp_cycle.at < ka_starts[i].cycle_start
        /\ ka_starts[i].cycle_start < rp_wake }

\* C31: delivery retries do not block probing.  Every probe cycle starts when
\* the sleep of the cycle before it ends, whether or not the report loop is
\* inside send_report; no probe cycle is ever overdue; and each probe cycle
\* evaluates the health state machine and appends its results to the Log
\* Store.
C31_RetriesDoNotBlockProbing ==
    /\ [](/\ \A i \in 2..Len(ka_starts) :
               LET before == ka_starts[i - 1]
                   wait == IF before.cycle_duration > interval
                           THEN before.cycle_duration ELSE interval
               IN ka_starts[i].cycle_start = before.cycle_start + wait
          /\ (KeepAliveRunnable /\ cycles > 0) => now = ka_wake)
    /\ [][cycles' = cycles + 1 =>
            /\ Len(observations') = Len(observations) + 1
            /\ service_down_notified' = ~observations'[Len(observations')]
            /\ logs' = logs \o logged_results(last_results',
                                              now + Len(last_results') * ProbeSeconds)]_vars

\* a probe cycle started, and logged, between two delivery attempts
C31_Witness ==
    /\ rp_pc = "sending"
    /\ rp_wake - rp_cycle.at >= RetryDelay
    /\ \E i \in StartedWhileSending :
          \E j \in 1..Len(logs) : logs[j].timestamp > ka_starts[i].cycle_start

\* C34: a record is removed by the report loop's clear only if the report
\* whose send triggered the clear included it.
C34_ClearedOnlyIfReported ==
    \A i \in 1..Len(report_cycles) :
        report_cycles[i].cleared =>
            \A j \in 1..Len(report_cycles[i].removed) :
                \E k \in 1..Len(report_cycles[i].reported) :
                    report_cycles[i].reported[k] = report_cycles[i].removed[j]

(***************************************************************************)
(* Properties of the HTTP entry points: repeated calls                     *)
(***************************************************************************)
\* the last call was a midnight report that was sent, and no keep-alive call
\* was served since
AfterSentReport ==
    /\ report_cycles # <<>>
    /\ report_cycles[Len(report_cycles)].outcome = "sent"
    /\ report_cycles[Len(report_cycles)].probes = cycles

\* C32: a midnight-report call that follows a successful one, with no probe
\* recorded in between, finds no data, sends nothing and leaves the Log Store
\* as it is.
C32_SecondCallSendsNothing ==
    [][(AfterSentReport /\ Len(report_cycles') = Len(report_cycles) + 1) =>
          /\ report_cycles'[Len(report_cycles')].outcome = "nodata"
          /\ backups' = backups
          /\ log_file' = log_file]_vars

\* the alerts the scheduler's ping_service emits for the observations obs
\* from the i-th on, when the down-notified flag is flag before the i-th
RECURSIVE MachineAlerts(_, _, _)
MachineAlerts(obs, i, flag) ==
    IF i > Len(obs)
    THEN <<>>
    ELSE (IF AlertFor(obs[i], flag) = <<>>
          THEN <<>>
          ELSE << [alert_type |-> AlertFor(obs[i], flag)[1], cycle |-> i] >>)
         \o MachineAlerts(obs, i + 1, NotifiedAfter(obs[i], flag))

\* C33: called once per observation, the keep-alive entry point emits the
\* alerts the scheduler's probe cycle emits for the same observations: a
\* DOWNTIME alert on the first unhealthy observation of an outage, a RECOVERY
\* alert on the first healthy observation after it.
C33_SameAlertsAsScheduler ==
    ka_raised = 0 =>
        [i \in 1..Len(alerts) |->
            [alert_type |-> alerts[i].alert_type, cycle |-> alerts[i].cycle]]
        = MachineAlerts(observations, 1, FALSE)

(***************************************************************************)
(* Properties of the Log Store: a crash while the file is written          *)
(***************************************************************************)
\* C35: a process that dies while _save_logs writes the file loses no record
\* that the file held before that write began: the store loaded after the
\* restart contains every one of them.
C35_CrashKeepsPersisted ==
    last_call.op = "restart_after_crash" =>
        \A i \in 1..Len(last_call.persisted) :
            InStore(last_call.persisted[i], logs)

(***************************************************************************)
(* Properties of the probe loop: the sequence of alerts                    *)
(***************************************************************************)
\* the probe cycles of the r-th run of the scheduler process (run 0 is the
\* one before the first restart) are those after FirstCycleBefore(r) up to
\* LastCycle(r)
FirstCycleBefore(r) == IF r = 0 THEN 0 ELSE restarts[r].after_cycle
LastCycle(r) == IF r = Len(restarts) THEN cycles ELSE restarts[r + 1].after_cycle

\* the alerts sent by the r-th run, in order
RunAlerts(r) ==
    SelectSeq(alerts, LAMBDA a : /\ a.cycle > FirstCycleBefore(r)
                                 /\ a.cycle <= LastCycle(r))

Alternating(seq) ==
    \A k \in 1..Len(seq) :
        seq[k].alert_type = IF k % 2 = 1 THEN "DOWNTIME" ELSE "RECOVERY"

CountOf(seq, type) ==
    Cardinality({k \in 1..Len(seq) : seq[k].alert_type = type})

\* C36 as stated: the alerts of the scheduler alternate, DOWNTIME first: the
\* odd ones are DOWNTIME alerts and the even ones RECOVERY alerts, and there
\* is one DOWNTIME alert more than RECOVERY alerts in DOWN_NOTIFIED and as
\* many in HEALTHY.
C36_AlertsAlternate ==
    /\ Alternating(alerts)
    /\ CountOf(alerts, "DOWNTIME") - CountOf(alerts, "RECOVERY")
          = IF service_down_notified THEN 1 ELSE 0

\* C36, amended: the alerts of each run of the scheduler process alternate,
\* DOWNTIME first, and among the alerts of the current run there is one
\* DOWNTIME alert more than RECOVERY alerts in DOWN_NOTIFIED and as many in
\* HEALTHY.
C36_AlertsAlternateWithinRun ==
    /\ \A r \in 0..Len(restarts) : Alternating(RunAlerts(r))
    /\ LET current == RunAlerts(Len(restarts))
       IN CountOf(current, "DOWNTIME") - CountOf(current, "RECOVERY")
             = IF service_down_notified THEN 1 ELSE 0

\* an outage and a recovery, a second outage, a restart during it, and the
\* recovery from it
C36_Witness ==
    /\ observations = <<FALSE, TRUE, FALSE, FALSE, TRUE>>
    /\ Len(restarts) = 1
    /\ restarts[1].after_cycle = 3
    /\ AlertTypes = <<"DOWNTIME", "RECOVERY", "DOWNTIME", "DOWNTIME", "RECOVERY">>
    /\ ~service_down_notified

(***************************************************************************)
(* Properties of the probe loop: alerts that fail or raise                 *)
(***************************************************************************)
\* the service was down in every probe cycle from i to j
DownThroughout(i, j) == \A c \in i..j : ~observations[c]

\* C37: the state after a probe cycle depends on the observation only, not
\* on what became of the alert: DOWN_NOTIFIED after an unhealthy observation
\* and HEALTHY after a healthy one, whether the alert was delivered, was not
\* delivered or raised; and after a DOWNTIME alert, whatever became of it, no
\* further alert is attempted while the outage lasts.
C37_TransitionIgnoresDelivery ==
    /\ service_down_notified =
          (observations # <<>> /\ ~observations[Len(observations)])
    /\ \A k \in 1..Len(alerts) :
          alerts[k].alert_type = "DOWNTIME" =>
              \A i \in (alerts[k].cycle + 1)..Len(observations) :
                  DownThroughout(alerts[k].cycle, i) => AlertsOfCycle(i) = {}

\* a DOWNTIME alert that raised and one that was not delivered, each followed
\* by a cycle of the same outage without alert, and a RECOVERY alert that was
\* not delivered
C37_Witness ==
    /\ observations = <<FALSE, FALSE, TRUE, FALSE, FALSE>>
    /\ Len(alerts) = 3
    /\ alerts[1].alert_type = "DOWNTIME" /\ alerts[1].raised
    /\ alerts[2].alert_type = "RECOVERY" /\ ~alerts[2].delivered
    /\ alerts[3].alert_type = "DOWNTIME" /\ ~alerts[3].delivered /\ ~alerts[3].raised
    /\ service_down_notified

(***************************************************************************)
(* Properties of the notifier calls: the alert types                       *)
(***************************************************************************)
\* C38: an alert of any type, the TEST alert of POST /alert included, is
\* delivered and send_alert returns True whenever the SMTP configuration is
\* complete and the transport accepts the message.
C38_AnyAlertDelivered ==
    (send_call.kind = "alert" /\ send_call.transport_ok) => send_call.result

(***************************************************************************)
(* Properties of the Log Store: timestamps                                 *)
(***************************************************************************)
\* the timestamps of the Log Store do not decrease in insertion order
TimestampsOrdered ==
    \A i \in 1..(Len(logs) - 1) : logs[i].timestamp <= logs[i + 1].timestamp

\* C39: the record of a probe result carries the result's timestamp, the
\* time the probe was started, and the timestamps of the Log Store do not
\* decrease in insertion order.
C39_TimestampIsProbeStart ==
    /\ cycles >= 1 =>
          \A i \in 1..Len(last_results) :
              LastLogged[i].timestamp = last_results[i].timestamp
    /\ TimestampsOrdered

(***************************************************************************)
(* Properties of the report loop: the daily trigger                        *)
(***************************************************************************)
\* the calendar days whose midnight the report loop runs through
ReportDays == 2..(1 + MaxDays)

\* a report cycle was started on day d, in the minute the loop fires in
CycleOn(d) ==
    \E i \in 1..Len(report_cycles) :
        /\ report_cycles[i].date = d
        /\ report_cycles[i].hour = 0
        /\ report_cycles[i].minute = 0

FailedOn(d) ==
    \E i \in 1..Len(report_cycles) :
        report_cycles[i].date = d /\ report_cycles[i].outcome = "failed"

\* C40: the report loop, ticking every 30 seconds, starts a report cycle on
\* every calendar day, and a cycle that ended in a send failure is followed
\* by the cycle of the next day.
C40_DailyTrigger ==
    /\ \A d \in ReportDays : <>CycleOn(d)
    /\ \A d \in ReportDays \ {1 + MaxDays} : [](FailedOn(d) => <>CycleOn(d + 1))

\* the send failed on one day and the cycle of the next day was started
C40_Witness ==
    \E d \in ReportDays : FailedOn(d) /\ CycleOn(d + 1)

====
